---- MODULE Spec2Model ----
(***************************************************************************)
(* Model of the tiered LLM router (server/llmRouter.ts) and of the         *)
(* self-healing engine (server/selfHealing.ts) of revvel-skill-runner,     *)
(* with the server monitor (server/infrastructureMonitoring.ts).           *)
(*                                                                         *)
(* Spec      : the router driven directly (selectModel and                 *)
(*             callOpenRouterWithFallback with arbitrary arguments).       *)
(* HealSpec  : healFailedSkill, which reaches the router via               *)
(*             diagnoseProblem.                                            *)
(* ConcSpec  : several healFailedSkill invocations at once, interleaved at *)
(*             their store operations.                                     *)
(* BackoffSpec : healFailedSkill on an empty store for a run that has     *)
(*             failed up to MaxBackoffAttempt times.                       *)
(* CostSpec  : calculateCost called directly.                              *)
(* FingerprintSpec : the pattern hash computed for spelled-out messages.   *)
(* RestartSpec : restartSkill step by step, with toggleSchedule calls of   *)
(*             users in between.                                           *)
(* EndpointSpec : healFailedSkill entered through the healError endpoint.  *)
(* RegisterSpec : registerServer called one call after another.            *)
(* MonitorSpec : registerServer, then the continuous-monitoring loop and   *)
(*             its health checks, minute by minute.                        *)
(* PostSpec  : scheduleSocialPost and createABTest calls                   *)
(*             (client/src/pages/Home.tsx) interleaved at their store      *)
(*             operations.                                                 *)
(***************************************************************************)
EXTENDS Integers, Sequences, FiniteSets, TLC

\* ------------------------------------------------------------------ bounds
\* Largest maxRetries a caller passes (the chains hold at most 6 entries).
MaxRetriesBound == 7

\* healFailedSkill invocations per behaviour.
MaxHeals == 1
\* Error records already in error_logs when the behaviour starts.
MaxPriorErrors == 3
\* Largest attemptNumber of an ErrorContext.
MaxAttemptNumber == 2
\* Number of schedules in skill_schedules.
NumSchedules == 2
\* Most error records of another message logged after two of one message.
MaxOtherErrors == 8
\* healFailedSkill invocations running at the same time.
NumCallers == 2
\* toggleSchedule calls of users per behaviour.
MaxToggles == 2
\* registerServer calls per behaviour.
MaxRegistrations == 2
\* Minutes the monitoring loop is followed.
MaxMinutes == 12
\* Health checks on record in one run.
MaxChecks == 2
\* scheduleSocialPost and createABTest calls running at the same time.
NumPosters == 2
\* Variants of one createABTest call.
MaxVariants == 2
\* Seconds of the store's clock that are followed.
MaxSeconds == 2
\* Largest attemptNumber of an ErrorContext where the backoff is examined.
MaxBackoffAttempt == 9
\* Longest error message spelled out character by character.
MaxTextLen == 3
\* Pattern hashes computed side by side.
MaxHashes == 2

\* ------------------------------------------------------- program constants
\* Default of the maxRetries parameter.
DefaultMaxRetries == 3
\* analyzeFailurePattern: .limit(10), and the threshold of both length tests.
RecentLimit == 10
PatternThreshold == 3

NoModel == "none"

\* llmRouter.ts: the model catalog, reduced to the censorship flag and tier.
LLM_MODELS ==
  [m \in {"venice/uncensored:free",
          "cognitivecomputations/dolphin-mistral-24b-venice-edition:free",
          "cognitivecomputations/dolphin-3.0",
          "venice/venice-ai-pro",
          "nous-hermes-3",
          "mimo-v2-flash",
          "trinity-large-preview",
          "meta-llama/llama-3.3-70b-instruct",
          "moonshot/kimi-k2.5",
          "google/gemini-2.5-pro",
          "deepseek/deepseek-v3.2"} |->
     [censored |-> m \in {"mimo-v2-flash", "trinity-large-preview",
                          "meta-llama/llama-3.3-70b-instruct",
                          "moonshot/kimi-k2.5", "google/gemini-2.5-pro",
                          "deepseek/deepseek-v3.2"}]]

\* Chains in which the uncensored-only policy holds a censored model.
FALLBACK_CHAINS_Mixed ==
  [t \in {"free-first", "paid-first", "uncensored-only", "censored-only"} |->
     CASE t = "free-first" ->
            << "venice/uncensored:free",
               "cognitivecomputations/dolphin-mistral-24b-venice-edition:free",
               "mimo-v2-flash",
               "trinity-large-preview",
               "meta-llama/llama-3.3-70b-instruct" >>
       [] t = "paid-first" ->
            << "cognitivecomputations/dolphin-3.0",
               "deepseek/deepseek-v3.2",
               "nous-hermes-3",
               "venice/uncensored:free" >>
       [] t = "uncensored-only" ->
            << "venice/uncensored:free",
               "mimo-v2-flash",
               "cognitivecomputations/dolphin-3.0",
               "nous-hermes-3" >>
       [] t = "censored-only" ->
            << "mimo-v2-flash",
               "trinity-large-preview",
               "meta-llama/llama-3.3-70b-instruct",
               "moonshot/kimi-k2.5",
               "google/gemini-2.5-pro",
               "deepseek/deepseek-v3.2" >>]

\* llmRouter.ts: FALLBACK_CHAINS.
FALLBACK_CHAINS ==
  [t \in {"free-first", "paid-first", "uncensored-only", "censored-only"} |->
     CASE t = "free-first" ->
            << "venice/uncensored:free",
               "cognitivecomputations/dolphin-mistral-24b-venice-edition:free",
               "mimo-v2-flash",
               "trinity-large-preview",
               "meta-llama/llama-3.3-70b-instruct" >>
       [] t = "paid-first" ->
            << "cognitivecomputations/dolphin-3.0",
               "deepseek/deepseek-v3.2",
               "nous-hermes-3",
               "venice/uncensored:free" >>
       [] t = "uncensored-only" ->
            << "venice/uncensored:free",
               "cognitivecomputations/dolphin-mistral-24b-venice-edition:free",
               "cognitivecomputations/dolphin-3.0",
               "nous-hermes-3" >>
       [] t = "censored-only" ->
            << "mimo-v2-flash",
               "trinity-large-preview",
               "meta-llama/llama-3.3-70b-instruct",
               "moonshot/kimi-k2.5",
               "google/gemini-2.5-pro",
               "deepseek/deepseek-v3.2" >>]

Tiers == DOMAIN FALLBACK_CHAINS

\* FALLBACK_CHAINS[tier] || FALLBACK_CHAINS["free-first"]
ChainFor(tier) ==
  IF tier \in DOMAIN FALLBACK_CHAINS THEN FALLBACK_CHAINS[tier]
  ELSE FALLBACK_CHAINS["free-first"]

Min(a, b) == IF a < b THEN a ELSE b

\* ------------------------------------------------------------ selectModel
\* The "continue" tests of selectModel's loop: catalog guard, then the
\* censorship preference.
SelectSkips(modelId, allowUncensored, allowCensored) ==
  \/ modelId \notin DOMAIN LLM_MODELS
  \/ LLM_MODELS[modelId].censored /\ ~allowCensored
  \/ ~LLM_MODELS[modelId].censored /\ ~allowUncensored

\* The model selectModel returns when its loop returns nothing.
SelectDefault == "venice/uncensored:free"

RECURSIVE selectModelFrom(_, _, _, _)
selectModelFrom(chain, j, allowUncensored, allowCensored) ==
  IF j > Len(chain) THEN SelectDefault
  ELSE IF SelectSkips(chain[j], allowUncensored, allowCensored)
       THEN selectModelFrom(chain, j + 1, allowUncensored, allowCensored)
       ELSE chain[j]

selectModel(tier, allowUncensored, allowCensored) ==
  selectModelFrom(ChainFor(tier), 1, allowUncensored, allowCensored)

\* --------------------------------------------------------- callOpenRouter
\* What the transport does with one request.
Responses == {"ok", "http_error", "unreachable", "malformed_body"}

NoError == [reason |-> "none", model |-> NoModel]

\* callOpenRouter without the response.ok test: an error status is parsed and
\* returned like an answer.
callOpenRouter_NoStatusCheck(modelId, apiKey, response) ==
  IF ~apiKey
  THEN [kind |-> "throw", error |-> [reason |-> "no_api_key", model |-> modelId]]
  ELSE IF response = "unreachable"
  THEN [kind |-> "throw", error |-> [reason |-> "transport_error", model |-> modelId]]
  ELSE IF response = "malformed_body"
  THEN [kind |-> "throw", error |-> [reason |-> "malformed_body", model |-> modelId]]
  ELSE [kind |-> "return", error |-> [reason |-> "none", model |-> NoModel]]

\* One executor call: the API-key check, fetch, the response.ok test and
\* response.json().  The outcome is either a returned value or a thrown Error.
callOpenRouter(modelId, apiKey, response) ==
  IF ~apiKey
  THEN [kind |-> "throw", error |-> [reason |-> "no_api_key", model |-> modelId]]
  ELSE IF response = "unreachable"
  THEN [kind |-> "throw", error |-> [reason |-> "transport_error", model |-> modelId]]
  ELSE IF response = "http_error"
  THEN [kind |-> "throw", error |-> [reason |-> "provider_error", model |-> modelId]]
  ELSE IF response = "malformed_body"
  THEN [kind |-> "throw", error |-> [reason |-> "malformed_body", model |-> modelId]]
  ELSE [kind |-> "return", error |-> NoError]

\* ---------------------------------------------- callOpenRouterWithFallback
\* The chain walk without the allowUncensored test.
RouterSkips_NoUncensoredCheck(modelId, allowUncensored, allowCensored) ==
  \/ modelId \notin DOMAIN LLM_MODELS
  \/ LLM_MODELS[modelId].censored /\ ~allowCensored

\* The "continue" tests of the chain walk.
RouterSkips(modelId, allowUncensored, allowCensored) ==
  \/ modelId \notin DOMAIN LLM_MODELS
  \/ LLM_MODELS[modelId].censored /\ ~allowCensored
  \/ ~LLM_MODELS[modelId].censored /\ ~allowUncensored

\* A loop bound that stops one candidate early.
LoopBound_OffByOne(maxRetries, chain) == Min(maxRetries, Len(chain)) - 1

\* Math.min(maxRetries, chain.length)
LoopBound(maxRetries, chain) == Min(maxRetries, Len(chain))

\* if (i > 0) fallbackUsed = true
FallbackFlag(idx, prev) == IF idx > 0 THEN TRUE ELSE prev

\* A catch block that keeps the first error instead of the latest.
CaughtError_KeepFirst(prev, err) ==
  IF prev # [reason |-> "none", model |-> NoModel] THEN prev ELSE err

\* catch (error) { lastError = error as Error; ... }
CaughtError(prev, err) == err

\* throw lastError || new Error("All LLM models failed")
AllFailedError == [reason |-> "all_models_failed", model |-> NoModel]
ThrownError(last) == IF last # NoError THEN last ELSE AllFailedError

VARIABLES
  rpc,          \* position of the router call: idle, loop, awaiting, returned, threw
  rArgs,        \* arguments of the running callOpenRouterWithFallback
  provider,     \* environment: is the API key set, which endpoint answers ok
  i,            \* loop index of the chain walk (0-based, as in the code)
  lastError,    \* lastError
  fallbackUsed, \* fallbackUsed
  callLog,      \* every callOpenRouter invocation of this run, in order
  rResult,      \* what callOpenRouterWithFallback returned or threw
  selected,     \* the last selectModel query and its answer
  hpc,            \* position of the healFailedSkill invocation
  heals,          \* number of healFailedSkill invocations started
  ctx,            \* the ErrorContext being healed
  errorLogs,      \* table error_logs, oldest first
  failurePatterns,\* table failure_patterns
  skillSchedules, \* table skill_schedules, by id
  diagnosis,      \* the DiagnosisResult of the invocation
  fixResult,      \* what attemptFix returned
  healResult,     \* the HealingResult returned, or the rejection
  db,             \* what the latest getDb() of the invocation answered
  calls,          \* concurrent healFailedSkill invocations, by caller
  cost,           \* the latest direct calculateCost call and what it returned
  hashes,         \* the pattern hashes computed directly, with their messages
  toggles,        \* the toggleSchedule calls completed, in order
  monitoredServers,   \* table monitored_servers, in order of insertion
  serverHealthChecks, \* table server_health_checks, oldest first
  registrations,      \* the registerServer calls made, with what each returned
  now,                \* minutes passed since the monitoring loop was started
  socialPosts,        \* table social_posts, in order of insertion
  posters,            \* the scheduleSocialPost and createABTest calls, by caller
  seconds             \* the store's clock, which stamps createdAt

rvars == << rpc, rArgs, provider, i, lastError, fallbackUsed, callLog, rResult >>
hvars == << hpc, heals, ctx, errorLogs, failurePatterns, skillSchedules,
            diagnosis, fixResult, healResult, db, calls >>
vars == << rpc, rArgs, provider, i, lastError, fallbackUsed, callLog, rResult, selected,
           hpc, heals, ctx, errorLogs, failurePatterns, skillSchedules,
           diagnosis, fixResult, healResult, db, calls, cost, hashes, toggles,
           monitoredServers, serverHealthChecks, registrations, now,
           socialPosts, posters, seconds >>
\* State of infrastructureMonitoring.ts, and of the operations examined on
\* their own: calculateCost, the pattern hash, toggleSchedule.
infra == << monitoredServers, serverHealthChecks, registrations, now >>
social == << socialPosts, posters, seconds >>
aside == << cost, hashes, toggles, infra, social >>

\* No calculateCost call has been made.
NoCost == [modelId |-> NoModel, inputTokens |-> 0, outputTokens |-> 0,
           cost |-> [nan |-> FALSE, units |-> 0]]

NoResult == [kind |-> "none", model |-> NoModel, fallbackUsed |-> FALSE, error |-> NoError]

\* Values of the router's locals while no call is running.
NoArgs == [tier |-> "free-first", allowUncensored |-> TRUE, allowCensored |-> TRUE,
           maxRetries |-> DefaultMaxRetries, caller |-> "none"]
NoProvider == [apiKey |-> TRUE, up |-> NoModel]

\* No selectModel answer is held.
NoSelection == [tier |-> "free-first", allowUncensored |-> TRUE,
                allowCensored |-> TRUE, model |-> NoModel]

\* ------------------------------------------------------- self-healing data
ScheduleIds == 1..NumSchedules
Messages == {"ECONNRESET", "TypeError: x is undefined"}
Contexts == [scheduleId : ScheduleIds, skillId : {1},
             attemptNumber : 1..MaxAttemptNumber, errorMessage : Messages]
NoCtx == [scheduleId |-> 1, skillId |-> 1, attemptNumber |-> 1, errorMessage |-> "none"]

FixStrategies == {"restart", "patch_code", "adjust_config", "retry", "escalate"}

\* A DiagnosisResult; confidence in hundredths (90 is 0.9), explanation by the
\* text that tells one diagnosis from another.
NoDiagnosis == [rootCause |-> "none", fixStrategy |-> "none", confidence |-> 0,
                explanation |-> "none", requiresManualIntervention |-> FALSE]
NoFix == [success |-> FALSE, action |-> "none"]
NoHealResult == [kind |-> "none", success |-> FALSE, action |-> "none",
                 retryScheduled |-> FALSE, escalated |-> FALSE]

\* One of the concurrent invocations: where it is in healFailedSkill, the
\* message of its context, what its analyzeFailurePattern has read so far,
\* the id of the error record its logError inserted (0: none) and the id
\* escalateToUser read as recentError[0].id (0: none).  The id of an error
\* record is its position in error_logs.
Callers == 1..NumCallers
IdleCall == [pc |-> "idle", errorMessage |-> "none", similar |-> 0, error |-> "none",
             logged |-> 0, escalatedRow |-> 0]
NoCalls == [c \in Callers |-> IdleCall]

\* A row of skill_schedules as the engine uses it; nextRunAt in seconds from
\* the time of the invocation (0: not in the future).
InitialSchedule == [enabled |-> TRUE, status |-> "error", nextRunAt |-> 0]

RouterInit ==
  /\ rpc = "idle"
  /\ rArgs = NoArgs
  /\ provider = NoProvider
  /\ i = 0
  /\ lastError = NoError
  /\ fallbackUsed = FALSE
  /\ callLog = << >>
  /\ rResult = NoResult
  /\ selected = NoSelection
  /\ cost = NoCost
  /\ hashes = << >>

Posters == 1..NumPosters

\* A caller that has called neither scheduleSocialPost nor createABTest.
IdlePoster ==
  [kind |-> "none", pc |-> "idle", left |-> 0, inserted |-> {}, returned |-> << >>,
   threw |-> FALSE]

HealerIdle ==
  /\ hpc = "idle"
  /\ heals = 0
  /\ ctx = NoCtx
  /\ diagnosis = NoDiagnosis
  /\ fixResult = NoFix
  /\ healResult = NoHealResult
  /\ db = "none"
  /\ calls = NoCalls
  /\ toggles = << >>
  /\ monitoredServers = << >>
  /\ serverHealthChecks = << >>
  /\ registrations = << >>
  /\ now = 0
  /\ socialPosts = << >>
  /\ posters = [c \in Posters |-> IdlePoster]
  /\ seconds = 0

Init ==
  /\ RouterInit
  /\ HealerIdle
  /\ errorLogs = << >>
  /\ failurePatterns = {}
  /\ skillSchedules = [s \in ScheduleIds |-> InitialSchedule]

\* The environment of one run: whether OPENROUTER_API_KEY is set and which
\* model endpoint (if any) answers successfully; all others fail.
\* (Without a key no request is sent, so "up" is left at NoModel there.)
Providers ==
  { p \in [apiKey : BOOLEAN, up : DOMAIN LLM_MODELS \cup {NoModel}] :
      p.apiKey \/ p.up = NoModel }

\* Entry of callOpenRouterWithFallback: chain, lastError = null, fallbackUsed = false.
EnterRouter(args, prov) ==
  /\ rpc' = "loop"
  /\ rArgs' = args
  /\ provider' = prov
  /\ i' = 0
  /\ lastError' = NoError
  /\ fallbackUsed' = FALSE
  /\ callLog' = << >>
  /\ rResult' = NoResult

\* A direct caller (testLlm, a watcher) invokes callOpenRouterWithFallback; the
\* answer of an earlier selectModel request is no longer held.
StartRoute ==
  /\ rpc = "idle"
  /\ \E t \in Tiers, aU \in BOOLEAN, aC \in BOOLEAN,
        mr \in 0..MaxRetriesBound, prov \in Providers :
        EnterRouter([tier |-> t, allowUncensored |-> aU, allowCensored |-> aC,
                     maxRetries |-> mr, caller |-> "direct"], prov)
  /\ selected' = NoSelection
  /\ UNCHANGED << hvars, aside >>

\* The selectModel endpoint.
SelectModelQuery ==
  /\ rpc = "idle"
  /\ \E t \in Tiers, aU \in BOOLEAN, aC \in BOOLEAN :
        selected' = [tier |-> t, allowUncensored |-> aU, allowCensored |-> aC,
                     model |-> selectModel(t, aU, aC)]
  /\ UNCHANGED << rpc, rArgs, provider, i, lastError, fallbackUsed, callLog, rResult >>
  /\ UNCHANGED << hvars, aside >>

\* A loop head that starts callOpenRouter without awaiting it.
RouterIterate_NoAwait ==
  /\ rpc = "loop"
  /\ i < LoopBound(rArgs.maxRetries, ChainFor(rArgs.tier))
  /\ LET modelId == ChainFor(rArgs.tier)[i + 1] IN
       IF RouterSkips(modelId, rArgs.allowUncensored, rArgs.allowCensored)
       THEN UNCHANGED callLog
       ELSE callLog' = Append(callLog, [model |-> modelId, index |-> i,
                                        status |-> "pending", response |-> "none",
                                        raised |-> FALSE, error |-> NoError])
  /\ i' = i + 1
  /\ UNCHANGED << rpc, rArgs, provider, lastError, fallbackUsed, rResult, selected >>
  /\ UNCHANGED << hvars, aside >>

\* One pass through the loop head: either a "continue" or the start of
\* callOpenRouter(messages, modelId).
RouterIterate ==
  /\ rpc = "loop"
  /\ i < LoopBound(rArgs.maxRetries, ChainFor(rArgs.tier))
  /\ LET modelId == ChainFor(rArgs.tier)[i + 1] IN
       IF RouterSkips(modelId, rArgs.allowUncensored, rArgs.allowCensored)
       THEN /\ i' = i + 1
            /\ UNCHANGED << rpc, callLog >>
       ELSE /\ callLog' = Append(callLog, [model |-> modelId, index |-> i,
                                           status |-> "pending", response |-> "none",
                                           raised |-> FALSE, error |-> NoError])
            /\ rpc' = "awaiting"
            /\ UNCHANGED i
  /\ UNCHANGED << rArgs, provider, lastError, fallbackUsed, rResult, selected >>
  /\ UNCHANGED << hvars, aside >>

\* The provider accepts the request and never answers it.  fetch is called
\* with method, headers and body only: no signal, no timer, so nothing in the
\* router ends the await.
ProviderNeverAnswers ==
  /\ rpc = "awaiting"
  /\ provider.apiKey
  /\ callLog[Len(callLog)].response = "none"
  /\ callLog' = [callLog EXCEPT ![Len(callLog)].response = "no_response"]
  /\ UNCHANGED << rpc, rArgs, provider, i, lastError, fallbackUsed, rResult, selected >>
  /\ UNCHANGED << hvars, aside >>

\* The awaited callOpenRouter settles: return on success, catch and continue
\* on a throw.
CallOpenRouterSettles ==
  /\ rpc = "awaiting"
  /\ callLog[Len(callLog)].response = "none"
  /\ LET n == Len(callLog)
         modelId == callLog[n].model IN
     \E response \in Responses :
       /\ IF provider.apiKey
          THEN (response = "ok") <=> (provider.up = modelId)
          ELSE response = "unreachable"   \* no request leaves without a key
       /\ LET Sent(r) == IF provider.apiKey THEN r ELSE "not_sent"
              out == callOpenRouter(modelId, provider.apiKey, response) IN
          IF out.kind = "return"
          THEN /\ fallbackUsed' = FallbackFlag(i, fallbackUsed)
               /\ rResult' = [kind |-> "value", model |-> modelId,
                              fallbackUsed |-> fallbackUsed', error |-> NoError]
               /\ callLog' = [callLog EXCEPT ![n].status = "ok",
                                             ![n].response = Sent(response)]
               /\ rpc' = "returned"
               /\ UNCHANGED << i, lastError >>
          ELSE /\ lastError' = CaughtError(lastError, out.error)
               /\ fallbackUsed' = FallbackFlag(i, fallbackUsed)
               /\ callLog' = [callLog EXCEPT ![n].status = "failed",
                                             ![n].response = Sent(response),
                                             ![n].raised = TRUE,
                                             ![n].error = out.error]
               /\ i' = i + 1
               /\ rpc' = "loop"
               /\ UNCHANGED rResult
  /\ UNCHANGED << rArgs, provider, selected >>
  /\ UNCHANGED << hvars, aside >>

\* The loop ran out: throw lastError || new Error("All LLM models failed").
RouterExhausted ==
  /\ rpc = "loop"
  /\ ~(i < LoopBound(rArgs.maxRetries, ChainFor(rArgs.tier)))
  /\ rResult' = [kind |-> "error", model |-> NoModel, fallbackUsed |-> fallbackUsed,
                 error |-> ThrownError(lastError)]
  /\ rpc' = "threw"
  /\ UNCHANGED << rArgs, provider, i, lastError, fallbackUsed, callLog, selected >>
  /\ UNCHANGED << hvars, aside >>

\* The direct caller takes the result (testLlm's try/catch); the locals of the
\* finished call are gone.
RouteDone ==
  /\ rpc \in {"returned", "threw"}
  /\ rArgs.caller = "direct"
  /\ rpc' = "idle"
  /\ rArgs' = NoArgs
  /\ provider' = NoProvider
  /\ i' = 0
  /\ lastError' = NoError
  /\ fallbackUsed' = FALSE
  /\ callLog' = << >>
  /\ rResult' = NoResult
  /\ UNCHANGED selected
  /\ UNCHANGED << hvars, aside >>

Next ==
  \/ StartRoute
  \/ SelectModelQuery
  \/ RouterIterate
  \/ ProviderNeverAnswers
  \/ CallOpenRouterSettles
  \/ RouterExhausted
  \/ RouteDone

Spec == Init /\ [][Next]_vars

\* ======================================================================
\* selfHealing.ts
\* ======================================================================
\* getDb() of ./db: a handle, or null while the store cannot be reached.  Each
\* function of the engine asks for it anew and tests the answer.
GetDbAnswers == {"handle", "null"}

\* What an awaited store operation can do: succeed, find no handle
\* (getDb() returned null), or reject.
StoreOutcomes == {"ok", "db_null", "throws"}

\* const db = await getDb(), for each outcome of the function that asked.
DbOf(out) == IF out = "db_null" THEN "null" ELSE "handle"

\* The rejection of healFailedSkill's promise.
Rejected == [kind |-> "rejected", success |-> FALSE, action |-> "none",
             retryScheduled |-> FALSE, escalated |-> FALSE]

\* The early return of healFailedSkill when getDb() yields no handle.
DbUnavailableDiagnosis ==
  [rootCause |-> "Database unavailable", fixStrategy |-> "escalate", confidence |-> 100,
   explanation |-> "Cannot access database for healing",
   requiresManualIntervention |-> TRUE]

\* An early return that neither schedules a retry nor escalates.
DbUnavailableResult_NoFlag ==
  [kind |-> "value", success |-> FALSE, action |-> "none",
   retryScheduled |-> FALSE, escalated |-> FALSE]

\* An early return that promises a retry nobody scheduled.
DbUnavailableResult_RetryScheduled ==
  [kind |-> "value", success |-> FALSE, action |-> "none",
   retryScheduled |-> TRUE, escalated |-> FALSE]

DbUnavailableResult ==
  [kind |-> "value", success |-> FALSE, action |-> "none",
   retryScheduled |-> FALSE, escalated |-> TRUE]

\* Buffer.from(errorMessage.substring(0, 100)).toString('base64').substring(0, 64):
\* the base64 text of the first 48 bytes; the messages of the model are shorter
\* than that, so the hash is the encoding of the whole message.
PatternHash(errorMessage) == << "base64", errorMessage >>

\* e.errorMessage.includes(context.errorMessage.substring(0, 50)), for the
\* messages of the model (none of which contains another).
IsSimilar(logged, errorMessage) == logged = errorMessage

\* .orderBy(desc(createdAt)).limit(10)
RecentErrors(logs) ==
  IF Len(logs) <= RecentLimit THEN logs
  ELSE SubSeq(logs, Len(logs) - RecentLimit + 1, Len(logs))

SimilarCount(logs, errorMessage) ==
  Cardinality({ j \in 1..Len(logs) : IsSimilar(logs[j].errorMessage, errorMessage) })

\* A row of failure_patterns: id is the auto-increment key, lastOccurrence is
\* "earlier" for a time before the invocation and "now" for context.timestamp.
\* db.insert(failurePatterns).values({...}) leaves successfulFix null.
NewPattern(patternHash, similar) ==
  [id |-> 0, patternHash |-> patternHash, occurrenceCount |-> similar,
   lastOccurrence |-> "now", successfulFix |-> "null"]

NextId(table) ==
  IF table = {} THEN 1
  ELSE 1 + (CHOOSE k \in { r.id : r \in table } : \A r \in table : r.id <= k)

\* An insert into a table without the unique key on patternHash.
InsertPattern_NoUniqueKey(table, row) ==
  [ok |-> TRUE, table |-> table \cup {[row EXCEPT !.id = NextId(table)]}]

\* The insert as the store performs it: patternHash is declared unique, so a
\* second row with a stored patternHash is refused and the insert rejects.
InsertPattern(table, row) ==
  IF \E r \in table : r.patternHash = row.patternHash
  THEN [ok |-> FALSE, table |-> table]
  ELSE [ok |-> TRUE, table |-> table \cup {[row EXCEPT !.id = NextId(table)]}]

\* pattern.knownFix: a row of failure_patterns has the columns of the schema,
\* which has no knownFix column, so the property is undefined.
KnownFixOf(row) == IF "knownFix" \in DOMAIN row THEN row.knownFix ELSE "undefined"
Truthy(v) == v \notin {"undefined", "null", ""}

\* applyKnownFix
KnownFixDiagnosis ==
  [rootCause |-> "Known recurring issue", fixStrategy |-> "patch_code", confidence |-> 90,
   explanation |-> "Applying known fix", requiresManualIntervention |-> FALSE]
KnownFixResult ==
  [kind |-> "value", success |-> TRUE, action |-> "Applied known fix",
   retryScheduled |-> TRUE, escalated |-> FALSE]

\* diagnoseProblem: what the model's text can be.  A JSON answer carries the
\* fields of interest, each possibly missing; fixStrategy may be any string and
\* confidence any number (<< >>: the field is missing; << 150 >>: the number 1.5).
ModelAnswers ==
  {[json |-> FALSE, fixStrategy |-> "missing", confidence |-> << >>,
    requiresManualIntervention |-> "missing"]}
  \cup [json : {TRUE},
        fixStrategy : FixStrategies \cup {"reboot", "missing"},
        confidence : {<< >>, << 0 >>, << 80 >>, << 150 >>},
        requiresManualIntervention : {"true", "false", "missing"}]

\* The messages of the errors callOpenRouterWithFallback throws.
RouterErrors ==
  {"no_api_key", "transport_error", "provider_error", "malformed_body", "all_models_failed"}

\* A catch branch that schedules a retry instead of asking for a human.
FailedDiagnosis_NoEscalation(message) ==
  [rootCause |-> "LLM diagnosis failed", fixStrategy |-> "retry", confidence |-> 0,
   explanation |-> message, requiresManualIntervention |-> FALSE]

\* The catch branch of diagnoseProblem; the explanation quotes error.message.
FailedDiagnosis(message) ==
  [rootCause |-> "LLM diagnosis failed", fixStrategy |-> "escalate", confidence |-> 0,
   explanation |-> message, requiresManualIntervention |-> TRUE]

\* diagnosis.confidence || 0.5: a missing field and the number 0 are both falsy.
ConfidenceOrDefault(field) ==
  IF field = << >> \/ field[1] = 0 THEN 50 ELSE field[1]

\* JSON.parse(content) and the defaults applied to its fields.
ParseDiagnosis(answer) ==
  IF ~answer.json THEN FailedDiagnosis("json_syntax_error")
  ELSE [rootCause |-> "from model",
        fixStrategy |-> IF answer.fixStrategy = "missing" THEN "escalate"
                        ELSE answer.fixStrategy,
        confidence |-> ConfidenceOrDefault(answer.confidence),
        explanation |-> "from model",
        requiresManualIntervention |->
          IF answer.requiresManualIntervention = "missing" THEN TRUE
          ELSE answer.requiresManualIntervention = "true"]

\* A backoff that doubles without the cap.
BackoffMinutes_NoCap(attemptNumber) == 2 ^ (attemptNumber - 1)

\* Math.min(Math.pow(2, attemptNumber - 1), 120)
BackoffMinutes(attemptNumber) == Min(2 ^ (attemptNumber - 1), 120)

\* backoffMinutes * 60 * 1000 milliseconds, counted in seconds. For an
\* attemptNumber below 1 Math.pow gives a fraction of a minute (0.5 for 0,
\* 0.25 for -1), which the minimum with 120 leaves as it is.
BackoffSeconds(attemptNumber) ==
  IF attemptNumber >= 1 THEN BackoffMinutes(attemptNumber) * 60
  ELSE 60 \div (2 ^ (1 - attemptNumber))

\* healFailedSkill, up to its first getDb().
HealFailedSkillFor(contexts) ==
  /\ hpc = "idle" /\ rpc = "idle"
  /\ heals < MaxHeals
  /\ heals' = heals + 1
  /\ \E c \in contexts, answer \in GetDbAnswers :
       /\ ctx' = c
       /\ db' = answer
       /\ IF answer = "null"
          THEN /\ diagnosis' = DbUnavailableDiagnosis
               /\ healResult' = DbUnavailableResult
               /\ hpc' = "done"
          ELSE /\ hpc' = "logError"
               /\ UNCHANGED << diagnosis, healResult >>
  /\ UNCHANGED << errorLogs, failurePatterns, skillSchedules, fixResult >>
  /\ UNCHANGED << rvars, selected, calls, aside >>

HealFailedSkill == HealFailedSkillFor(Contexts)

\* A record that leaves retryCount at the column's default.
ErrorRecord_DefaultRetryCount(context) ==
  [errorMessage |-> context.errorMessage, retryCount |-> 0,
   escalated |-> FALSE, createdAt |-> "now"]

\* The values logError inserts into error_logs (createdAt: defaultNow).
ErrorRecord(context) ==
  [errorMessage |-> context.errorMessage, retryCount |-> context.attemptNumber,
   escalated |-> FALSE, createdAt |-> "now"]

\* await logError(context): nothing catches a rejection of its select or insert.
LogError ==
  /\ hpc = "logError"
  /\ \E out \in StoreOutcomes :
       /\ errorLogs' =
            IF out = "ok"
            THEN Append(errorLogs, ErrorRecord(ctx))
            ELSE errorLogs
       /\ db' = DbOf(out)
       /\ IF out = "throws"
          THEN hpc' = "rejected" /\ healResult' = Rejected
          ELSE hpc' = "analyze" /\ UNCHANGED healResult
  /\ UNCHANGED << heals, ctx, failurePatterns, skillSchedules, diagnosis, fixResult >>
  /\ UNCHANGED << rvars, selected, calls, aside >>

\* await analyzeFailurePattern(context), and the known-fix test that follows.
AnalyzeFailurePattern ==
  /\ hpc = "analyze"
  /\ \E out \in StoreOutcomes :
       LET recentErrors == RecentErrors(errorLogs)
           similar == SimilarCount(recentErrors, ctx.errorMessage)
           patternHash == PatternHash(ctx.errorMessage)
           patterns == { r \in failurePatterns : r.patternHash = patternHash }
           isPattern == Len(recentErrors) >= PatternThreshold
                        /\ similar >= PatternThreshold
           found == out = "ok" /\ isPattern /\ patterns # {}
           pattern == CHOOSE r \in patterns : TRUE
       IN
       /\ failurePatterns' =
            IF out = "ok" /\ isPattern /\ patterns = {}
            THEN InsertPattern(failurePatterns, NewPattern(patternHash, similar)).table
            ELSE failurePatterns
       /\ db' = DbOf(out)
       /\ IF out = "throws"
          THEN /\ hpc' = "rejected" /\ healResult' = Rejected
               /\ UNCHANGED diagnosis
          ELSE IF found /\ Truthy(KnownFixOf(pattern))
          THEN /\ hpc' = "done" /\ healResult' = KnownFixResult
               /\ diagnosis' = KnownFixDiagnosis
          ELSE /\ hpc' = "diagnose"
               /\ UNCHANGED << healResult, diagnosis >>
  /\ UNCHANGED << heals, ctx, errorLogs, skillSchedules, fixResult >>
  /\ UNCHANGED << rvars, selected, calls, aside >>

\* diagnoseProblem calls callOpenRouterWithFallback(messages, "uncensored-only", true).
\* (An endpoint outside the policy's chain is never contacted, so the
\* environment names only endpoints of that chain.)
DiagnoseProblem ==
  /\ hpc = "diagnose" /\ rpc = "idle"
  /\ hpc' = "awaitDiagnosis"
  /\ \E prov \in Providers :
       /\ prov.up \in {NoModel} \cup
            { ChainFor("uncensored-only")[j] : j \in 1..Len(ChainFor("uncensored-only")) }
       /\ EnterRouter([tier |-> "uncensored-only", allowUncensored |-> TRUE,
                       allowCensored |-> TRUE, maxRetries |-> DefaultMaxRetries,
                       caller |-> "diagnoseProblem"], prov)
  /\ UNCHANGED << heals, ctx, errorLogs, failurePatterns, skillSchedules,
                  diagnosis, fixResult, healResult, selected, db, calls, aside >>

\* The router call settles: parse the answer, or take the catch branch.
DiagnoseSettles ==
  /\ hpc = "awaitDiagnosis"
  /\ rpc \in {"returned", "threw"}
  /\ IF rpc = "threw"
     THEN diagnosis' = FailedDiagnosis(rResult.error.reason)
     ELSE \E answer \in ModelAnswers : diagnosis' = ParseDiagnosis(answer)
  /\ hpc' = "attemptFix"
  /\ rpc' = "idle"
  /\ rArgs' = NoArgs
  /\ provider' = NoProvider
  /\ i' = 0
  /\ lastError' = NoError
  /\ fallbackUsed' = FALSE
  /\ callLog' = << >>
  /\ rResult' = NoResult
  /\ UNCHANGED << heals, ctx, errorLogs, failurePatterns, skillSchedules,
                  fixResult, healResult, selected, db, calls, aside >>

\* restartSkill: disable, pause, re-enable; its own try/catch turns a rejected
\* update into a failed fix.
RestartOutcomes == {"ok", "db_null", "first_update_throws", "second_update_throws"}
RestartedSchedules_NoWhere(schedules, id, out) ==
  IF out = "ok"
  THEN [s \in DOMAIN schedules |-> [schedules[s] EXCEPT !.enabled = TRUE, !.status = "idle"]]
  ELSE IF out = "second_update_throws"
  THEN [s \in DOMAIN schedules |-> [schedules[s] EXCEPT !.enabled = FALSE]]
  ELSE schedules

\* A restart that sets the next run as well, before any retry is decided.
RestartedSchedules_SetsNextRun(schedules, id, out) ==
  IF out = "ok"
  THEN [schedules EXCEPT ![id].enabled = TRUE, ![id].status = "idle", ![id].nextRunAt = 1]
  ELSE IF out = "second_update_throws"
  THEN [schedules EXCEPT ![id].enabled = FALSE]
  ELSE schedules

RestartedSchedules(schedules, id, out) ==
  IF out = "ok"
  THEN [schedules EXCEPT ![id].enabled = TRUE, ![id].status = "idle"]
  ELSE IF out = "second_update_throws"
  THEN [schedules EXCEPT ![id].enabled = FALSE]
  ELSE schedules

\* A choice after attemptFix that leaves requiresManualIntervention out.
AfterFix_NoEscalation(fix, diag) == "scheduleRetry"

\* A choice after attemptFix that asks for a human before it looks at the fix.
AfterFix_ManualFirst(fix, diag) ==
  IF diag.requiresManualIntervention THEN "escalate" ELSE "scheduleRetry"

\* The choice healFailedSkill makes once attemptFix has returned: retry when
\* the fix succeeded or the strategy is "retry", else escalate when the
\* diagnosis asks for a human, else retry.
AfterFix(fix, diag) ==
  IF fix.success \/ diag.fixStrategy = "retry"
  THEN "scheduleRetry"
  ELSE IF diag.requiresManualIntervention
  THEN "escalate"
  ELSE "scheduleRetry"

\* await attemptFix(context, diagnosis), then the choice healFailedSkill makes.
AttemptFix ==
  /\ hpc = "attemptFix"
  /\ \E out \in RestartOutcomes :
       /\ diagnosis.fixStrategy # "restart" => out = "ok"
       /\ fixResult' =
            CASE diagnosis.fixStrategy = "restart" ->
                   IF out = "ok"
                   THEN [success |-> TRUE, action |-> "Skill restarted successfully"]
                   ELSE IF out = "db_null"
                   THEN [success |-> FALSE, action |-> "Database unavailable"]
                   ELSE [success |-> FALSE, action |-> "Restart failed"]
              [] diagnosis.fixStrategy = "patch_code" ->
                   [success |-> FALSE, action |-> "Code patch suggested"]
              [] diagnosis.fixStrategy = "adjust_config" ->
                   [success |-> FALSE, action |-> "Config adjustment suggested"]
              [] diagnosis.fixStrategy = "retry" ->
                   [success |-> TRUE, action |-> "Scheduled retry with backoff"]
              [] diagnosis.fixStrategy = "escalate" ->
                   [success |-> FALSE, action |-> "Escalated to user"]
              [] OTHER ->
                   [success |-> FALSE, action |-> "Unknown fix strategy"]
       /\ skillSchedules' =
            IF diagnosis.fixStrategy = "restart"
            THEN RestartedSchedules(skillSchedules, ctx.scheduleId, out)
            ELSE skillSchedules
       /\ db' = IF diagnosis.fixStrategy # "restart" THEN db
                 ELSE IF out = "db_null" THEN "null" ELSE "handle"
  /\ hpc' = AfterFix(fixResult', diagnosis)
  /\ UNCHANGED << heals, ctx, errorLogs, failurePatterns, diagnosis, healResult >>
  /\ UNCHANGED << rvars, selected, calls, aside >>

\* await scheduleRetry(context) and the return that follows it.
ScheduleRetry ==
  /\ hpc = "scheduleRetry"
  /\ \E out \in StoreOutcomes :
       /\ skillSchedules' =
            IF out = "ok"
            THEN [skillSchedules EXCEPT
                    ![ctx.scheduleId].nextRunAt = BackoffSeconds(ctx.attemptNumber)]
            ELSE skillSchedules
       /\ db' = DbOf(out)
       /\ IF out = "throws"
          THEN hpc' = "rejected" /\ healResult' = Rejected
          ELSE /\ hpc' = "done"
               /\ healResult' =
                    IF fixResult.success \/ diagnosis.fixStrategy = "retry"
                    THEN [kind |-> "value", success |-> fixResult.success,
                          action |-> fixResult.action,
                          retryScheduled |-> TRUE, escalated |-> FALSE]
                    ELSE [kind |-> "value", success |-> FALSE,
                          action |-> "retry_scheduled",
                          retryScheduled |-> TRUE, escalated |-> FALSE]
  /\ UNCHANGED << heals, ctx, errorLogs, failurePatterns, diagnosis, fixResult >>
  /\ UNCHANGED << rvars, selected, calls, aside >>

\* An escalation that schedules a retry as well.
EscalatedSchedules_Retry(schedules, context) ==
  [schedules EXCEPT ![context.scheduleId].nextRunAt = BackoffSeconds(context.attemptNumber)]

\* skill_schedules after escalateToUser: it reads and writes error_logs only.
EscalatedSchedules(schedules, context) == schedules

\* await escalateToUser(context, diagnosis) and the return that follows it.
EscalateToUser ==
  /\ hpc = "escalate"
  /\ \E out \in StoreOutcomes :
       /\ errorLogs' =
            IF out = "ok" /\ errorLogs # << >>
            THEN [errorLogs EXCEPT ![Len(errorLogs)].escalated = TRUE]
            ELSE errorLogs
       /\ skillSchedules' =
            IF out = "ok" THEN EscalatedSchedules(skillSchedules, ctx) ELSE skillSchedules
       /\ db' = DbOf(out)
       /\ IF out = "throws"
          THEN hpc' = "rejected" /\ healResult' = Rejected
          ELSE /\ hpc' = "done"
               /\ healResult' = [kind |-> "value", success |-> FALSE,
                                 action |-> "escalated",
                                 retryScheduled |-> FALSE, escalated |-> TRUE]
  /\ UNCHANGED << heals, ctx, failurePatterns, diagnosis, fixResult >>
  /\ UNCHANGED << rvars, selected, calls, aside >>

\* createdAt (defaultNow) and lastOccurrence are kept relative to the running
\* invocation: "now" while it runs, "earlier" once it is over.
AgedLogs(logs) == [j \in 1..Len(logs) |-> [logs[j] EXCEPT !.createdAt = "earlier"]]
AgedPatterns(table) == { [r EXCEPT !.lastOccurrence = "earlier"] : r \in table }

\* The caller (the healError endpoint) has the outcome; the invocation is over.
HealSettled ==
  /\ hpc \in {"done", "rejected"}
  /\ hpc' = "idle"
  /\ ctx' = NoCtx
  /\ diagnosis' = NoDiagnosis
  /\ fixResult' = NoFix
  /\ healResult' = NoHealResult
  /\ db' = "none"
  /\ errorLogs' = AgedLogs(errorLogs)
  /\ failurePatterns' = AgedPatterns(failurePatterns)
  /\ UNCHANGED << heals, skillSchedules >>
  /\ UNCHANGED << rvars, selected, calls, aside >>

\* Stores healFailedSkill can find: up to MaxPriorErrors earlier error records
\* (all of the last seven days), or two records of one message followed by a
\* run of records of the other; a pattern row only for a message that was
\* logged three times, with or without a fix recorded for it.
PriorError(m) == [errorMessage |-> m, retryCount |-> 1, escalated |-> FALSE,
                  createdAt |-> "earlier"]
PriorLogs ==
  UNION { [1..n -> { PriorError(m) : m \in Messages }] : n \in 0..MaxPriorErrors }
  \cup { [j \in 1..(2 + n) |-> IF j <= 2 THEN PriorError(mo[1]) ELSE PriorError(mo[2])] :
          mo \in { q \in Messages \X Messages : q[1] # q[2] },
          n \in (RecentLimit - PatternThreshold)..MaxOtherErrors }

HealInit ==
  /\ RouterInit
  /\ HealerIdle
  /\ errorLogs \in PriorLogs
  /\ failurePatterns \in
       { {} } \cup
       { {[id |-> 1, patternHash |-> PatternHash(m), occurrenceCount |-> PatternThreshold,
           lastOccurrence |-> "earlier", successfulFix |-> fix]} :
         m \in { x \in Messages : SimilarCount(errorLogs, x) >= PatternThreshold },
         fix \in {"null", "raise the request timeout"} }
  /\ skillSchedules = [s \in ScheduleIds |-> InitialSchedule]

HealNext ==
  \/ HealFailedSkill
  \/ LogError
  \/ AnalyzeFailurePattern
  \/ DiagnoseProblem
  \/ RouterIterate
  \/ ProviderNeverAnswers
  \/ CallOpenRouterSettles
  \/ RouterExhausted
  \/ DiagnoseSettles
  \/ AttemptFix
  \/ ScheduleRetry
  \/ EscalateToUser
  \/ HealSettled

HealSpec == HealInit /\ [][HealNext]_vars

\* ----------------------------------------------------------------------
\* healFailedSkill on a run that has failed many times already: one
\* invocation on an empty store, its context's attemptNumber up to
\* MaxBackoffAttempt, so that the backoff of scheduleRetry reaches its cap.
LateContexts == [scheduleId : ScheduleIds, skillId : {1},
                 attemptNumber : 1..MaxBackoffAttempt, errorMessage : Messages]

HealFailedSkillLate == HealFailedSkillFor(LateContexts)

BackoffNext ==
  \/ HealFailedSkillLate
  \/ LogError
  \/ AnalyzeFailurePattern
  \/ DiagnoseProblem
  \/ RouterIterate
  \/ ProviderNeverAnswers
  \/ CallOpenRouterSettles
  \/ RouterExhausted
  \/ DiagnoseSettles
  \/ AttemptFix
  \/ ScheduleRetry
  \/ EscalateToUser
  \/ HealSettled

BackoffSpec == Init /\ [][BackoffNext]_vars

\* ======================================================================
\* Concurrent invocations of healFailedSkill
\* ======================================================================
\* Each await of a store operation is a point where another invocation can
\* run; the store performs one operation at a time.  The steps after
\* analyzeFailurePattern do not touch failure_patterns.
single == << rvars, selected, aside, hpc, heals, ctx, skillSchedules, diagnosis,
             fixResult, healResult, db >>

\* The caller's invocation moves on.
Moves(c, call) == calls' = [calls EXCEPT ![c] = call]
RejectedCall(call, why) == [call EXCEPT !.pc = "rejected", !.error = why]

\* healFailedSkill(context) is called; without a handle it returns at once.
CallerEnters(c) ==
  /\ calls[c].pc = "idle"
  /\ \E m \in Messages, answer \in GetDbAnswers :
       Moves(c, [calls[c] EXCEPT !.errorMessage = m,
                                 !.pc = IF answer = "null" THEN "done" ELSE "logError"])
  /\ UNCHANGED << errorLogs, failurePatterns, single >>

\* logError: db.insert(errorLogs)
CallerLogsError(c) ==
  /\ calls[c].pc = "logError"
  /\ \E out \in StoreOutcomes :
       /\ errorLogs' =
            IF out = "ok"
            THEN Append(errorLogs, [errorMessage |-> calls[c].errorMessage,
                                    retryCount |-> 1, escalated |-> FALSE,
                                    createdAt |-> "now"])
            ELSE errorLogs
       /\ Moves(c, IF out = "throws" THEN RejectedCall(calls[c], "store_error")
                   ELSE [calls[c] EXCEPT !.pc = "selectErrors",
                                         !.logged = IF out = "ok" THEN Len(errorLogs) + 1
                                                    ELSE 0])
  /\ UNCHANGED << failurePatterns, single >>

\* analyzeFailurePattern: the select of the recent errors and the two length
\* tests.
CallerSelectsErrors(c) ==
  /\ calls[c].pc = "selectErrors"
  /\ \E out \in StoreOutcomes :
       LET recentErrors == RecentErrors(errorLogs)
           similar == SimilarCount(recentErrors, calls[c].errorMessage)
           isPattern == Len(recentErrors) >= PatternThreshold
                        /\ similar >= PatternThreshold
       IN Moves(c, IF out = "throws" THEN RejectedCall(calls[c], "store_error")
                   ELSE IF out = "ok" /\ isPattern
                   THEN [calls[c] EXCEPT !.pc = "selectPattern", !.similar = similar]
                   ELSE [calls[c] EXCEPT !.pc = "diagnosing"])
  /\ UNCHANGED << errorLogs, failurePatterns, single >>

\* analyzeFailurePattern: the select of the pattern row by patternHash.
CallerSelectsPattern(c) ==
  /\ calls[c].pc = "selectPattern"
  /\ \E out \in {"ok", "throws"} :
       LET patterns == { r \in failurePatterns :
                           r.patternHash = PatternHash(calls[c].errorMessage) }
       IN Moves(c, IF out = "throws" THEN RejectedCall(calls[c], "store_error")
                   ELSE IF patterns # {}
                   THEN [calls[c] EXCEPT !.pc = "diagnosing"]
                   ELSE [calls[c] EXCEPT !.pc = "insertPattern"])
  /\ UNCHANGED << errorLogs, failurePatterns, single >>

\* analyzeFailurePattern: db.insert(failurePatterns); a refused insert rejects,
\* and nothing catches it.
CallerInsertsPattern(c) ==
  /\ calls[c].pc = "insertPattern"
  /\ LET done == InsertPattern(failurePatterns,
                               NewPattern(PatternHash(calls[c].errorMessage),
                                          calls[c].similar))
     IN /\ failurePatterns' = done.table
        /\ Moves(c, IF done.ok THEN [calls[c] EXCEPT !.pc = "diagnosing"]
                    ELSE RejectedCall(calls[c], "duplicate_key"))
  /\ UNCHANGED << errorLogs, single >>

\* Diagnosis and fix end in a scheduled retry (no write to error_logs or
\* failure_patterns), and the invocation returns.
CallerFinishes(c) ==
  /\ calls[c].pc = "diagnosing"
  /\ Moves(c, [calls[c] EXCEPT !.pc = "done"])
  /\ UNCHANGED << errorLogs, failurePatterns, single >>

\* Diagnosis and fix end in escalateToUser: the select of the most recent
\* error record, by createdAt, whoever inserted it.
CallerSelectsLatest(c) ==
  /\ calls[c].pc = "diagnosing"
  /\ \E out \in StoreOutcomes :
       Moves(c, IF out = "throws" THEN RejectedCall(calls[c], "store_error")
                ELSE IF out = "ok" /\ errorLogs # << >>
                THEN [calls[c] EXCEPT !.pc = "markEscalated",
                                      !.escalatedRow = Len(errorLogs)]
                ELSE [calls[c] EXCEPT !.pc = "done"])
  /\ UNCHANGED << errorLogs, failurePatterns, single >>

\* escalateToUser: the update of that record, by its id; then the return.
CallerMarksEscalated(c) ==
  /\ calls[c].pc = "markEscalated"
  /\ \E out \in {"ok", "throws"} :
       /\ errorLogs' =
            IF out = "ok"
            THEN [errorLogs EXCEPT ![calls[c].escalatedRow].escalated = TRUE]
            ELSE errorLogs
       /\ Moves(c, IF out = "throws" THEN RejectedCall(calls[c], "store_error")
                   ELSE [calls[c] EXCEPT !.pc = "done"])
  /\ UNCHANGED << failurePatterns, single >>

ConcNext ==
  \E c \in Callers :
    \/ CallerEnters(c)
    \/ CallerLogsError(c)
    \/ CallerSelectsErrors(c)
    \/ CallerSelectsPattern(c)
    \/ CallerInsertsPattern(c)
    \/ CallerFinishes(c)
    \/ CallerSelectsLatest(c)
    \/ CallerMarksEscalated(c)

ConcSpec == HealInit /\ [][ConcNext]_vars

\* ======================================================================
\* Properties of the router
\* ======================================================================
Done == rpc \in {"returned", "threw"}
Chain == ChainFor(rArgs.tier)
Last(seq) == seq[Len(seq)]

\* The censorship flags permit the model.
Allowed(modelId, allowUncensored, allowCensored) ==
  IF LLM_MODELS[modelId].censored THEN allowCensored ELSE allowUncensored

\* The call was made with the default flags and the default maxRetries.
DefaultArgs ==
  /\ rArgs.allowUncensored /\ rArgs.allowCensored
  /\ rArgs.maxRetries = 3

\* C2: the candidates are called one at a time in chain order: every call but
\* the latest has finished with a failure (so a call begins only after its
\* predecessor failed, and nothing is called after a success), and exactly
\* the latest call may be in flight.
C2_SequentialCalls ==
  /\ \A j \in 1..Len(callLog) :
       /\ callLog[j].model = Chain[callLog[j].index + 1]
       /\ j < Len(callLog) =>
            /\ callLog[j].status = "failed"
            /\ callLog[j].index < callLog[j + 1].index
  /\ (rpc = "awaiting") <=> (callLog # << >> /\ Last(callLog).status = "pending")
  /\ (rpc = "returned") => (callLog # << >> /\ Last(callLog).status = "ok")

C2_Witness ==
  /\ rpc = "returned"
  /\ Len(callLog) = 3
  /\ callLog[1].status = "failed" /\ callLog[2].status = "failed"
  /\ callLog[3].status = "ok"

\* C3 as stated: with default arguments, for every position k of the chain at
\* which the executor succeeds (failing before k), the call returns success
\* with fallbackUsed = (k > 0) after exactly k+1 executor calls.
C3_AnyPosition ==
  (Done /\ DefaultArgs /\ provider.apiKey) =>
    \A k \in 0..(Len(Chain) - 1) :
      provider.up = Chain[k + 1] =>
        /\ rResult.kind = "value"
        /\ rResult.fallbackUsed = (k > 0)
        /\ Len(callLog) = k + 1

\* C3 amended: the same for every position k below min(3, chain length), the
\* part of the chain the default maxRetries lets the walk reach.
C3_WithinDefaultRetries ==
  (Done /\ DefaultArgs /\ provider.apiKey) =>
    \A k \in 0..(Len(Chain) - 1) :
      (k < 3 /\ provider.up = Chain[k + 1]) =>
        /\ rResult.kind = "value"
        /\ rResult.model = Chain[k + 1]
        /\ rResult.fallbackUsed = (k > 0)
        /\ Len(callLog) = k + 1

C3_Witness ==
  /\ rpc = "returned" /\ DefaultArgs /\ provider.apiKey
  /\ provider.up = Chain[3]
  /\ rResult.fallbackUsed
  /\ Len(callLog) = 3

\* C4: if every candidate of the chain truncated to maxRetries fails, the call
\* fails after exactly min(maxRetries, chain length) executor calls, and no run
\* makes more executor calls than that.
C4_ExhaustionCallCount ==
  /\ Len(callLog) <= Min(rArgs.maxRetries, Len(Chain))
  /\ (/\ Done
      /\ \A j \in 1..Min(rArgs.maxRetries, Len(Chain)) :
           ~provider.apiKey \/ provider.up # Chain[j])
     => /\ rpc = "threw"
        /\ Len(callLog) = Min(rArgs.maxRetries, Len(Chain))

\* C5: the call fails only when no attempted candidate succeeded, and the error
\* it then throws is the error of the last candidate it attempted.
C5_LastErrorReported ==
  rpc = "threw" =>
    /\ rResult.kind = "error"
    /\ \A j \in 1..Len(callLog) : callLog[j].status = "failed"
    /\ callLog # << >> => rResult.error = Last(callLog).error

C5_Witness ==
  /\ rpc = "threw"
  /\ Len(callLog) >= 2
  /\ callLog[1].error.reason # Last(callLog).error.reason
  /\ rResult.error.reason = Last(callLog).error.reason

\* C6: on success fallbackUsed is true exactly when some other candidate was
\* called and failed before the successful one.
C6_FallbackIffEarlierFailure ==
  rpc = "returned" =>
    (rResult.fallbackUsed <=> \E j \in 1..Len(callLog) : callLog[j].status = "failed")

\* C7: for every policy and flag pair (default maxRetries) the first model the
\* chain walk calls is the model selectModel returns for that policy and flags.
C7_FirstCallIsSelectModel ==
  (Done /\ rArgs.maxRetries = 3) =>
    /\ callLog # << >>
    /\ callLog[1].model =
         selectModel(rArgs.tier, rArgs.allowUncensored, rArgs.allowCensored)

\* C8: the candidate chain is never empty: selectModel returns a model id, and
\* a chain walk with maxRetries >= 1 calls at least one model (the default
\* 'venice/uncensored:free' when the flags filter out the whole chain).
C8_ChainNonEmpty ==
  /\ (rpc = "idle" /\ selected # NoSelection) => selected.model \in DOMAIN LLM_MODELS
  /\ (Done /\ rArgs.maxRetries >= 1) => callLog # << >>

\* C9 as stated: neither the model selectModel returns nor any model the chain
\* walk calls has a censorship flag the caller's flags forbid.
C9_NoForbiddenModel ==
  /\ selected.model # NoModel =>
       Allowed(selected.model, selected.allowUncensored, selected.allowCensored)
  /\ \A j \in 1..Len(callLog) :
       Allowed(callLog[j].model, rArgs.allowUncensored, rArgs.allowCensored)

\* C9 amended: every model the chain walk calls is permitted by the flags; the
\* model selectModel returns is permitted by them too, except when the flags
\* forbid every entry of the policy's chain, where selectModel returns
\* 'venice/uncensored:free' whatever the flags say.
C9_ForbiddenOnlyAsDefault ==
  /\ \A j \in 1..Len(callLog) :
       Allowed(callLog[j].model, rArgs.allowUncensored, rArgs.allowCensored)
  /\ selected.model # NoModel =>
       \/ Allowed(selected.model, selected.allowUncensored, selected.allowCensored)
       \/ /\ selected.model = "venice/uncensored:free"
          /\ \A j \in 1..Len(FALLBACK_CHAINS[selected.tier]) :
               ~Allowed(FALLBACK_CHAINS[selected.tier][j],
                        selected.allowUncensored, selected.allowCensored)

C9_Witness ==
  /\ rpc = "returned"
  /\ rArgs.tier = "free-first" /\ ~rArgs.allowUncensored /\ rArgs.allowCensored
  /\ Len(callLog) = 2
  /\ callLog[1].model = "mimo-v2-flash"
  /\ callLog[2].model = "trinity-large-preview"

C11_EveryCallSettles ==
  rpc = "awaiting" => ENABLED CallOpenRouterSettles

\* ======================================================================
\* Properties of the healing engine (HealSpec)
\* ======================================================================
\* C1: healFailedSkill always completes with a HealingResult value; it never
\* rejects, whatever collaborator fails during the run.
C1_HealNeverRejects ==
  hpc # "rejected" /\ healResult.kind # "rejected"

\* The HealingResult healFailedSkill has returned.
Returned == hpc = "done" /\ healResult.kind = "value"

\* C12: when the diagnosis has fixStrategy = "escalate" and
\* requiresManualIntervention = true, the invocation does not go to the retry
\* scheduling, and the result healFailedSkill returns has success = false,
\* retryScheduled = false and escalated = true.
C12_EscalateDiagnosisEscalates ==
  (diagnosis.fixStrategy = "escalate" /\ diagnosis.requiresManualIntervention) =>
    /\ hpc # "scheduleRetry"
    /\ Returned =>
         (~healResult.success /\ ~healResult.retryScheduled /\ healResult.escalated)

C12_Witness ==
  /\ Returned
  /\ diagnosis.rootCause = "from model"
  /\ diagnosis.fixStrategy = "escalate" /\ diagnosis.requiresManualIntervention
  /\ healResult.escalated /\ ~healResult.retryScheduled /\ ~healResult.success
  /\ errorLogs # << >> /\ Last(errorLogs).escalated

\* nextRunAt of the failed work item is the time of scheduling plus the backoff
\* of the attempt.
RetryWritten ==
  skillSchedules[ctx.scheduleId].nextRunAt = 60 * BackoffMinutes(ctx.attemptNumber)

\* C13: when the diagnosis has fixStrategy = "restart" and both steps of the
\* restart succeed, the result returned has success = true, retryScheduled =
\* true and escalated = false, and the work item's nextRunAt has been set to
\* the time of scheduling plus min(2^(attemptNumber-1), 120) minutes.
C13_RestartSchedulesRetry ==
  (Returned /\ diagnosis.fixStrategy = "restart"
            /\ fixResult.action = "Skill restarted successfully") =>
    /\ healResult.success /\ healResult.retryScheduled /\ ~healResult.escalated
    /\ RetryWritten

\* C14: whenever the result returned has retryScheduled = true, the work item's
\* nextRunAt was written during the invocation, to now plus the backoff.
C14_RetryReportedIsWritten ==
  (Returned /\ healResult.retryScheduled) => RetryWritten

\* analyzeFailurePattern has just returned, having had the store in reach.
Analysed == hpc = "diagnose" /\ db = "handle"

\* The invocation has got past analyzeFailurePattern.
PastAnalysis ==
  \/ Analysed
  \/ hpc \in {"awaitDiagnosis", "attemptFix", "scheduleRetry", "escalate"}
  \/ hpc = "done" /\ diagnosis.rootCause # "Database unavailable"

\* failure_patterns holds a row for the fingerprint of the incoming error with
\* a fix recorded in it.
KnownFixStored ==
  \E r \in failurePatterns :
    /\ r.patternHash = PatternHash(ctx.errorMessage)
    /\ r.successfulFix \notin {"null", ""}

\* C15: whenever a FailurePattern with a non-empty known fix exists for the
\* fingerprint of the incoming error, healFailedSkill returns the known-fix
\* diagnosis (patch_code, confidence 0.9, no manual intervention) and the
\* router is not called during that invocation.
C15_KnownFixShortCircuits ==
  (PastAnalysis /\ KnownFixStored) =>
    /\ hpc = "done" /\ rpc = "idle"
    /\ diagnosis.fixStrategy = "patch_code"
    /\ diagnosis.confidence = 90
    /\ ~diagnosis.requiresManualIntervention

\* The diagnosis is the one diagnoseProblem makes of a router failure.
RouterFailureDiagnosis(d) ==
  d.rootCause = "LLM diagnosis failed" /\ d.explanation \in RouterErrors

\* C16: when the router reports exhaustion during diagnosis, diagnoseProblem
\* returns the diagnosis escalate / confidence 0 / manual intervention, and the
\* result healFailedSkill then returns has escalated = true, retryScheduled =
\* false and success = false.
C16_ExhaustionEscalates ==
  [][ /\ (hpc = "awaitDiagnosis" /\ rpc = "threw" /\ hpc' = "attemptFix") =>
           /\ RouterFailureDiagnosis(diagnosis')
           /\ diagnosis'.fixStrategy = "escalate"
           /\ diagnosis'.confidence = 0
           /\ diagnosis'.requiresManualIntervention
      /\ (hpc' = "done" /\ healResult'.kind = "value"
            /\ RouterFailureDiagnosis(diagnosis')) =>
           /\ healResult'.escalated
           /\ ~healResult'.retryScheduled
           /\ ~healResult'.success ]_vars

C16_Witness ==
  /\ Returned
  /\ RouterFailureDiagnosis(diagnosis)
  /\ diagnosis.explanation = "provider_error"
  /\ healResult.escalated /\ ~healResult.retryScheduled

\* C17: every diagnosis diagnoseProblem returns, whatever the model answered,
\* has fixStrategy among restart, patch_code, adjust_config, retry, escalate
\* and confidence within [0, 1]; a missing or malformed field has taken its
\* default.
C17_DiagnosisWellFormed ==
  diagnosis.rootCause \in {"from model", "LLM diagnosis failed"} =>
    /\ diagnosis.fixStrategy \in FixStrategies
    /\ diagnosis.confidence \in 0..100
    /\ diagnosis.requiresManualIntervention \in BOOLEAN

\* failure_patterns holds a row for the fingerprint of the incoming error.
PatternStored ==
  \E r \in failurePatterns : r.patternHash = PatternHash(ctx.errorMessage)

\* C18: when the error being healed is the third or later occurrence of its
\* fingerprint in the last seven days (the current one counted), the
\* invocation that goes on to the model-based diagnosis has left a
\* FailurePattern for the fingerprint in the store, however many errors with
\* other fingerprints were logged in between.
C18_ThirdOccurrenceMakesPattern ==
  (/\ Analysed
   /\ errorLogs # << >> /\ Last(errorLogs).errorMessage = ctx.errorMessage
   /\ SimilarCount(errorLogs, ctx.errorMessage) >= PatternThreshold)
  => PatternStored

\* C19: once a FailurePattern exists for a fingerprint, an invocation whose
\* error matches it leaves analyzeFailurePattern with the row's
\* occurrenceCount one higher and its lastOccurrence refreshed; and no step
\* ever lowers the occurrenceCount of a row.
C19_MatchCountsOccurrence ==
  [][ /\ \A r \in failurePatterns :
           (/\ hpc = "analyze" /\ hpc' = "diagnose" /\ db' = "handle"
            /\ r.patternHash = PatternHash(ctx.errorMessage))
           => \E q \in failurePatterns' :
                /\ q.id = r.id
                /\ q.occurrenceCount = r.occurrenceCount + 1
                /\ q.lastOccurrence = "now"
      /\ \A r \in failurePatterns :
           \E q \in failurePatterns' :
             q.id = r.id /\ q.occurrenceCount >= r.occurrenceCount ]_vars

\* ======================================================================
\* Properties of concurrent invocations (ConcSpec)
\* ======================================================================
\* C20: under any interleaving of concurrent healFailedSkill invocations the
\* failure pattern store holds at most one row per patternHash.
C20_OnePatternPerHash ==
  \A r \in failurePatterns, q \in failurePatterns :
    r.patternHash = q.patternHash => r = q

\* Two invocations for the same message both found no row and both went on to
\* insert one: the first insert stored its row, the second was refused.
C20_Witness ==
  \E c \in Callers, e \in Callers :
    /\ calls[c].errorMessage = calls[e].errorMessage
    /\ calls[c].pc \in {"diagnosing", "done"} /\ calls[c].similar >= PatternThreshold
    /\ calls[e].pc = "rejected" /\ calls[e].error = "duplicate_key"
    /\ \E r \in failurePatterns : r.patternHash = PatternHash(calls[c].errorMessage)

\* The invocation of caller c went through the pattern lookup of
\* analyzeFailurePattern (its error matched at least PatternThreshold recent
\* records) and has returned.
MatchedAndDone(c) ==
  calls[c].pc = "done" /\ calls[c].similar >= PatternThreshold

\* C21: when all NumCallers concurrent invocations are for the same fingerprint
\* and all have completed, the occurrenceCount of a pattern row that existed
\* before them has grown by exactly NumCallers.
C21_NoLostIncrement ==
  (/\ \A c \in Callers : MatchedAndDone(c)
   /\ \A c \in Callers, e \in Callers : calls[c].errorMessage = calls[e].errorMessage)
  => \A r \in failurePatterns :
       (/\ r.patternHash = PatternHash(calls[1].errorMessage)
        /\ r.lastOccurrence = "earlier")
       => r.occurrenceCount = PatternThreshold + NumCallers

\* C22: when an invocation escalates, the error record it marks escalated is
\* the record its own logError appended, also when other invocations append
\* their records concurrently.
C22_EscalatesOwnRecord ==
  \A c \in Callers :
    (calls[c].escalatedRow # 0 /\ calls[c].logged # 0) =>
      calls[c].escalatedRow = calls[c].logged

\* ======================================================================
\* Further properties of the healing engine (HealSpec)
\* ======================================================================
\* Some schedule's nextRunAt differs after the step.
NextRunAtWritten ==
  \E s \in ScheduleIds : skillSchedules'[s].nextRunAt # skillSchedules[s].nextRunAt

\* C23: on every path where healFailedSkill returns escalated = true no retry
\* is scheduled: nextRunAt is written only by the step that returns a result
\* with retryScheduled = true and escalated = false, and the step that returns
\* escalated = true reports no retry and writes no nextRunAt.
C23_EscalationSchedulesNothing ==
  [][ /\ NextRunAtWritten =>
           /\ hpc' = "done"
           /\ healResult'.retryScheduled /\ ~healResult'.escalated
      /\ (hpc # "done" /\ hpc' = "done" /\ healResult'.escalated) =>
           /\ ~healResult'.retryScheduled
           /\ ~NextRunAtWritten ]_vars

C23_Witness ==
  /\ Returned /\ healResult.escalated
  /\ diagnosis.fixStrategy = "restart" /\ fixResult.action = "Restart failed"
  /\ skillSchedules[ctx.scheduleId].nextRunAt = 0
  /\ ~skillSchedules[ctx.scheduleId].enabled

\* The error records inserted during the running invocation.
AppendedNow == { j \in 1..Len(errorLogs) : errorLogs[j].createdAt = "now" }

\* The record is the one logError writes for the ErrorContext; it says
\* escalated only once the invocation has escalated.
RecordOfContext(row) ==
  /\ row.errorMessage = ctx.errorMessage
  /\ row.retryCount = ctx.attemptNumber
  /\ row.escalated => (hpc = "done" /\ healResult.escalated)

\* C24 as stated: every invocation that returns an outcome has appended
\* exactly one error record for its ErrorContext, on every path.
C24_AlwaysOneRecord ==
  Returned =>
    /\ Cardinality(AppendedNow) = 1
    /\ \A j \in AppendedNow : RecordOfContext(errorLogs[j])

\* C24 amended: an invocation appends at most one error record, and only for
\* its ErrorContext; it has appended exactly one when logError returns with
\* the store in reach, before anything else is done, and none when the store
\* is unavailable at entry.
C24_OneRecordWhenStoreInReach ==
  /\ Cardinality(AppendedNow) <= 1
  /\ \A j \in AppendedNow : RecordOfContext(errorLogs[j])
  /\ hpc = "logError" => AppendedNow = {}
  /\ (hpc = "analyze" /\ db = "handle") => Cardinality(AppendedNow) = 1
  /\ (Returned /\ diagnosis.rootCause = "Database unavailable") => AppendedNow = {}

C24_Witness ==
  /\ Returned /\ healResult.escalated
  /\ diagnosis.rootCause = "from model"
  /\ Len(errorLogs) = 4
  /\ AppendedNow = {4} /\ errorLogs[4].escalated
  /\ errorLogs[4].retryCount = 2

\* C25: an invocation for schedule id S writes only to the schedule record
\* with id S: a step changes the enabled, status or nextRunAt of a schedule
\* only while an invocation runs, and only of the schedule of its context.
C25_OnlyOwnSchedule ==
  [][ \A s \in ScheduleIds :
        skillSchedules'[s] # skillSchedules[s] =>
          (hpc # "idle" /\ s = ctx.scheduleId) ]_vars

C25_Witness ==
  /\ Returned /\ ctx.scheduleId = 2
  /\ diagnosis.fixStrategy = "restart" /\ healResult.success
  /\ skillSchedules[2].status = "idle"
  /\ skillSchedules[2].nextRunAt = 60 * BackoffMinutes(ctx.attemptNumber)
  /\ skillSchedules[1] = InitialSchedule

\* C26: when getDb yields no handle at entry, healFailedSkill returns
\* success = false, escalated = true, retryScheduled = false with an escalate
\* diagnosis, and performs no router call and no store write.
StoreUnavailableAtEntry == hpc = "idle" /\ hpc' # "idle" /\ db' = "null"

C26_StoreUnavailableAtEntry ==
  [][ StoreUnavailableAtEntry =>
        /\ hpc' = "done"
        /\ healResult'.kind = "value"
        /\ ~healResult'.success
        /\ healResult'.escalated
        /\ ~healResult'.retryScheduled
        /\ diagnosis'.fixStrategy = "escalate"
        /\ UNCHANGED rvars
        /\ UNCHANGED << errorLogs, failurePatterns, skillSchedules >> ]_vars

C26_Witness ==
  /\ Returned /\ db = "null"
  /\ diagnosis = DbUnavailableDiagnosis
  /\ Len(callLog) = 0
  /\ \A j \in 1..Len(errorLogs) : errorLogs[j].createdAt = "earlier"

\* ======================================================================
\* Properties of the retry backoff (BackoffSpec)
\* ======================================================================

BackoffTable == << 1, 2, 4, 8, 16, 32, 64, 120 >>

RetryAt(minutes) ==
  /\ Returned /\ healResult.retryScheduled /\ db = "handle"
  /\ skillSchedules[ctx.scheduleId].nextRunAt = 60 * minutes

NaN == [nan |-> TRUE, units |-> 0]
Num(units) == [nan |-> FALSE, units |-> units]
Plus(a, b) == IF a.nan \/ b.nan THEN NaN ELSE Num(a.units + b.units)

\* tier, costPerMTok and costPerCTok of the catalog entries, the rates in
\* ten-thousandths of a dollar (0.0005 is 5).
LlmModelConfig(modelId) ==
  CASE modelId = "venice/uncensored:free" ->
         [tier |-> "free-uncensored", costPerMTok |-> 0, costPerCTok |-> 0]
    [] modelId = "cognitivecomputations/dolphin-mistral-24b-venice-edition:free" ->
         [tier |-> "free-uncensored", costPerMTok |-> 0, costPerCTok |-> 0]
    [] modelId = "cognitivecomputations/dolphin-3.0" ->
         [tier |-> "paid-uncensored", costPerMTok |-> 5, costPerCTok |-> 15]
    [] modelId = "venice/venice-ai-pro" ->
         [tier |-> "paid-uncensored", costPerMTok |-> 8, costPerCTok |-> 24]
    [] modelId = "nous-hermes-3" ->
         [tier |-> "paid-uncensored", costPerMTok |-> 6, costPerCTok |-> 18]
    [] modelId = "mimo-v2-flash" ->
         [tier |-> "free-censored", costPerMTok |-> 0, costPerCTok |-> 0]
    [] modelId = "trinity-large-preview" ->
         [tier |-> "free-censored", costPerMTok |-> 0, costPerCTok |-> 0]
    [] modelId = "meta-llama/llama-3.3-70b-instruct" ->
         [tier |-> "free-censored", costPerMTok |-> 0, costPerCTok |-> 0]
    [] modelId = "moonshot/kimi-k2.5" ->
         [tier |-> "paid-censored", costPerMTok |-> 10, costPerCTok |-> 30]
    [] modelId = "google/gemini-2.5-pro" ->
         [tier |-> "paid-censored", costPerMTok |-> 15, costPerCTok |-> 60]
    [] modelId = "deepseek/deepseek-v3.2" ->
         [tier |-> "paid-censored", costPerMTok |-> 2, costPerCTok |-> 6]

\* LLM_MODELS is an object literal: besides its own keys, a lookup finds the
\* properties every object inherits from Object.prototype.
ObjectPrototypeKeys == {"constructor", "toString", "__proto__"}

\* LLM_MODELS[modelId]: the catalog entry, an inherited property (a function
\* or Object.prototype: truthy, and without cost fields), or undefined.
LookupModel(modelId) ==
  IF modelId \in DOMAIN LLM_MODELS THEN "config"
  ELSE IF modelId \in ObjectPrototypeKeys THEN "inherited"
  ELSE "undefined"

\* (tokens / 1000000) * rate, where rate is a field of what the lookup found:
\* a number times undefined is NaN.
TokenCost(found, tokens, rate) ==
  IF found = "config" THEN Num(tokens * rate) ELSE NaN

calculateCost(modelId, inputTokens, outputTokens) ==
  LET model == LookupModel(modelId) IN
  IF model = "undefined" THEN Num(0)
  ELSE LET inputCost ==
             TokenCost(model, inputTokens,
                       IF model = "config" THEN LlmModelConfig(modelId).costPerMTok ELSE 0)
           outputCost ==
             TokenCost(model, outputTokens,
                       IF model = "config" THEN LlmModelConfig(modelId).costPerCTok ELSE 0)
       IN Plus(inputCost, outputCost)

\* The arguments of the calls examined.
ModelIds == DOMAIN LLM_MODELS \cup ObjectPrototypeKeys \cup {"openai/gpt-4o"}
TokenCounts == {0, 1, 1500, 1000000}

CalculateCost ==
  /\ rpc = "idle" /\ hpc = "idle"
  /\ \E modelId \in ModelIds, inputTokens \in TokenCounts, outputTokens \in TokenCounts :
       cost' = [modelId |-> modelId, inputTokens |-> inputTokens,
                outputTokens |-> outputTokens,
                cost |-> calculateCost(modelId, inputTokens, outputTokens)]
  /\ UNCHANGED << rpc, rArgs, provider, i, lastError, fallbackUsed, callLog, rResult,
                  selected, hvars, hashes, toggles, infra, social >>

CostNext == CalculateCost

CostSpec == Init /\ [][CostNext]_vars

InCatalog == cost.modelId \in DOMAIN LLM_MODELS
FreeTier ==
  InCatalog /\ LlmModelConfig(cost.modelId).tier \in {"free-uncensored", "free-censored"}

\* C28: calculateCost(modelId, inputTokens, outputTokens) equals
\* inputTokens/1e6 * costPerMTok + outputTokens/1e6 * costPerCTok of the
\* catalog entry (0.002 for a million tokens each way at 0.0005 and 0.0015),
\* and is 0 for every free-tier model and for a model id absent from the
\* catalog.
C28_CostOfCall ==
  cost # NoCost =>
    /\ InCatalog =>
         cost.cost = Num(cost.inputTokens * LlmModelConfig(cost.modelId).costPerMTok
                         + cost.outputTokens * LlmModelConfig(cost.modelId).costPerCTok)
    /\ ( /\ cost.modelId = "cognitivecomputations/dolphin-3.0"
         /\ cost.inputTokens = 1000000 /\ cost.outputTokens = 1000000 ) =>
         cost.cost = Num(20000000)
    /\ FreeTier => cost.cost = Num(0)
    /\ ~InCatalog => cost.cost = Num(0)

\* The same for the catalog's own ids and for ids that name nothing at all.
C28_CostOfCallOwnKeys ==
  cost.modelId \notin ObjectPrototypeKeys => C28_CostOfCall

\* ======================================================================
\* The failure fingerprint: patternHash of analyzeFailurePattern
\* ======================================================================

\* Error messages spelled out as sequences of characters, over an alphabet
\* with one letter in both cases and the blank.
Chars == {"e", "E", " "}
MessageTexts == UNION { [1..n -> Chars] : n \in 1..MaxTextLen }

\* analyzeFailurePattern's patternHash computed for one message.
ComputePatternHash ==
  /\ rpc = "idle" /\ hpc = "idle"
  /\ Len(hashes) < MaxHashes
  /\ \E text \in MessageTexts :
       hashes' = Append(hashes, [errorMessage |-> text, patternHash |-> PatternHash(text)])
  /\ UNCHANGED << rvars, selected, hvars, cost, toggles, infra, social >>

FingerprintNext == ComputePatternHash

FingerprintSpec == Init /\ [][FingerprintNext]_vars

\* The normalized prefix the fingerprint is to be derived from: letters in
\* lower case, every run of blanks one blank.
Lower(c) == IF c = "E" THEN "e" ELSE c
RECURSIVE Normalized(_)
Normalized(text) ==
  IF text = << >> THEN << >>
  ELSE LET c == Lower(Head(text))
           rest == Normalized(Tail(text))
       IN IF c = " " /\ rest # << >> /\ Head(rest) = " " THEN rest ELSE << c >> \o rest

\* C29: two error messages whose case- and whitespace-normalized prefixes are
\* equal always get the same fingerprint.
C29_NormalizedFingerprint ==
  \A a, b \in 1..Len(hashes) :
    Normalized(hashes[a].errorMessage) = Normalized(hashes[b].errorMessage) =>
      hashes[a].patternHash = hashes[b].patternHash

\* The fingerprint is a function of the message as it is written.
C29_SameTextSameFingerprint ==
  \A a, b \in 1..Len(hashes) :
    hashes[a].errorMessage = hashes[b].errorMessage <=>
      hashes[a].patternHash = hashes[b].patternHash

\* ======================================================================
\* The decision after the diagnosis (HealSpec)
\* ======================================================================

\* attemptFix has returned.
FixAttempted == fixResult # NoFix
RetryBranch == fixResult.success \/ diagnosis.fixStrategy = "retry"

\* C30: after the diagnosis the outcome follows exactly this rule: when the
\* fix succeeded or fixStrategy is "retry", a retry is scheduled and escalated
\* is false (also when requiresManualIntervention is true); otherwise, when
\* requiresManualIntervention, the invocation escalates; otherwise a retry is
\* scheduled with success = false. patch_code and adjust_config always fail.
C30_DecisionRule ==
  FixAttempted =>
    /\ hpc \in {"scheduleRetry", "escalate", "done", "rejected"}
    /\ hpc = "scheduleRetry" => (RetryBranch \/ ~diagnosis.requiresManualIntervention)
    /\ hpc = "escalate" => (~RetryBranch /\ diagnosis.requiresManualIntervention)
    /\ diagnosis.fixStrategy \in {"patch_code", "adjust_config"} => ~fixResult.success
    /\ Returned =>
         IF RetryBranch
         THEN /\ healResult.retryScheduled /\ ~healResult.escalated
              /\ healResult.success = fixResult.success
         ELSE IF diagnosis.requiresManualIntervention
         THEN healResult.escalated /\ ~healResult.retryScheduled /\ ~healResult.success
         ELSE healResult.retryScheduled /\ ~healResult.escalated /\ ~healResult.success

C30_Witness ==
  /\ Returned /\ FixAttempted
  /\ diagnosis.fixStrategy = "retry" /\ diagnosis.requiresManualIntervention
  /\ healResult.retryScheduled /\ ~healResult.escalated /\ healResult.success
  /\ RetryWritten
  /\ \A j \in 1..Len(errorLogs) : ~errorLogs[j].escalated

\* ======================================================================
\* Shape and order of an invocation (HealSpec)
\* ======================================================================

\* C31: in every HealingResult that healFailedSkill returns exactly one of
\* retryScheduled and escalated is true, and success = true implies
\* retryScheduled = true.
C31_OneOfRetryAndEscalation ==
  Returned =>
    /\ healResult.retryScheduled # healResult.escalated
    /\ healResult.success => healResult.retryScheduled

C31_Witness ==
  /\ Returned /\ FixAttempted
  /\ healResult.success /\ healResult.retryScheduled /\ ~healResult.escalated
  /\ diagnosis.fixStrategy = "restart"

\* Position of a step in the body of healFailedSkill.
Rank(pc) ==
  CASE pc = "idle" -> 0
    [] pc = "logError" -> 1
    [] pc = "analyze" -> 2
    [] pc = "diagnose" -> 3
    [] pc = "awaitDiagnosis" -> 4
    [] pc = "attemptFix" -> 5
    [] pc \in {"scheduleRetry", "escalate"} -> 6
    [] pc \in {"done", "rejected"} -> 7
NextRunAts == [s \in ScheduleIds |-> skillSchedules[s].nextRunAt]
EscalatedFlags == [j \in 1..Len(errorLogs) |-> errorLogs[j].escalated]
PatternKeys == { r.patternHash : r \in failurePatterns }

\* C32: within one invocation the steps happen in a fixed order: the error
\* record is appended before the failure-pattern lookup (and never later),
\* the pattern store is touched only by the lookup, which is over before the
\* router is called, the fix action runs only once the diagnosis is there,
\* and nextRunAt or the escalated flag is written only after the fix action
\* has returned.
C32_StepsInOrder ==
  [][ /\ hpc' # "idle" => Rank(hpc') >= Rank(hpc)
      /\ Len(errorLogs') # Len(errorLogs) => hpc = "logError"
      /\ PatternKeys' # PatternKeys => (hpc = "analyze" /\ Rank(hpc') > Rank(hpc))
      /\ (rpc' # rpc \/ callLog' # callLog) =>
           (hpc \in {"diagnose", "awaitDiagnosis"} /\ fixResult = NoFix)
      /\ fixResult' # fixResult =>
           \/ hpc = "attemptFix" /\ diagnosis # NoDiagnosis /\ rpc = "idle"
                /\ diagnosis' = diagnosis
           \/ hpc' = "idle"
      /\ (NextRunAts' # NextRunAts \/ EscalatedFlags' # EscalatedFlags) =>
           \/ Len(errorLogs') # Len(errorLogs)
           \/ hpc \in {"scheduleRetry", "escalate"} /\ FixAttempted ]_vars

C32_Witness ==
  /\ Returned /\ FixAttempted
  /\ diagnosis.rootCause = "from model"
  /\ errorLogs # << >> /\ Last(errorLogs).createdAt = "now"
  /\ PatternHash(ctx.errorMessage) \in PatternKeys
  /\ \E r \in failurePatterns : r.lastOccurrence = "now"
  /\ healResult.retryScheduled /\ RetryWritten

\* ======================================================================
\* Censorship policies (Spec)
\* ======================================================================

Called == { callLog[j].model : j \in 1..Len(callLog) }
\* The arguments diagnoseProblem passes: callOpenRouterWithFallback(messages,
\* "uncensored-only", true), the other two parameters at their defaults.
DiagnosisArgs == rArgs.tier = "uncensored-only" /\ DefaultArgs

\* C33: under 'uncensored-only' no censored model is ever called and under
\* 'censored-only' no uncensored model is ever called, whatever the flags;
\* with the arguments of diagnoseProblem every model called is uncensored and
\* at most 3 models are called.
C33_PolicyKeepsCensorship ==
  /\ rArgs.tier = "uncensored-only" => \A m \in Called : ~LLM_MODELS[m].censored
  /\ rArgs.tier = "censored-only" => \A m \in Called : LLM_MODELS[m].censored
  /\ DiagnosisArgs =>
       /\ Len(callLog) <= 3
       /\ \A m \in Called : ~LLM_MODELS[m].censored

C33_Witness ==
  /\ rpc = "threw" /\ DiagnosisArgs
  /\ Len(callLog) = 3
  /\ Called = {"venice/uncensored:free",
               "cognitivecomputations/dolphin-mistral-24b-venice-edition:free",
               "cognitivecomputations/dolphin-3.0"}

\* ======================================================================
\* The restart action and the schedule's enabled flag (HealSpec)
\* ======================================================================

\* C34: when the restart action reports failure, the work item's enabled flag
\* is what it was before: a failed restart never leaves a previously enabled
\* work item disabled.
C34_FailedRestartKeepsEnabled ==
  [][ ( /\ hpc = "attemptFix" /\ diagnosis.fixStrategy = "restart"
        /\ fixResult' # NoFix /\ ~fixResult'.success ) =>
        skillSchedules'[ctx.scheduleId].enabled = skillSchedules[ctx.scheduleId].enabled ]_vars

\* ======================================================================
\* restartSkill step by step, and toggleSchedule (skillManager.ts)
\* ======================================================================
\* The part of an invocation that attemptFix spends in restartSkill, with its
\* two updates as separate steps; what precedes it is in HealSpec.

RestartDiagnoses ==
  { ParseDiagnosis(a) : a \in { b \in ModelAnswers : b.json /\ b.fixStrategy = "restart" } }

\* restartSkill up to its pause: getDb, then the update that disables.
RestartSkillBegins ==
  /\ hpc = "idle" /\ rpc = "idle"
  /\ heals < MaxHeals
  /\ heals' = heals + 1
  /\ \E c \in Contexts, d \in RestartDiagnoses, out \in StoreOutcomes :
       /\ ctx' = c
       /\ diagnosis' = d
       /\ db' = DbOf(out)
       /\ CASE out = "ok" ->
                 /\ skillSchedules' = [skillSchedules EXCEPT ![c.scheduleId].enabled = FALSE]
                 /\ hpc' = "restartPause"
                 /\ UNCHANGED fixResult
            [] out = "db_null" ->
                 /\ fixResult' = [success |-> FALSE, action |-> "Database unavailable"]
                 /\ hpc' = "restartDone"
                 /\ UNCHANGED skillSchedules
            [] out = "throws" ->
                 /\ fixResult' = [success |-> FALSE, action |-> "Restart failed"]
                 /\ hpc' = "restartDone"
                 /\ UNCHANGED skillSchedules
  /\ UNCHANGED << errorLogs, failurePatterns, healResult, calls >>
  /\ UNCHANGED << rvars, selected, aside >>

\* restartSkill after the pause: the update that re-enables, and the return.
RestartSkillEnables ==
  /\ hpc = "restartPause"
  /\ hpc' = "restartDone"
  /\ \E out \in {"ok", "throws"} :
       IF out = "ok"
       THEN /\ skillSchedules' = [skillSchedules EXCEPT ![ctx.scheduleId].enabled = TRUE,
                                                        ![ctx.scheduleId].status = "idle"]
            /\ fixResult' = [success |-> TRUE, action |-> "Skill restarted successfully"]
       ELSE /\ fixResult' = [success |-> FALSE, action |-> "Restart failed"]
            /\ UNCHANGED skillSchedules
  /\ UNCHANGED << heals, ctx, errorLogs, failurePatterns, diagnosis, healResult, db, calls >>
  /\ UNCHANGED << rvars, selected, aside >>

\* skillManager.toggleSchedule(scheduleId, enabled), called for a user by the
\* toggleSchedule route at any moment; `during` notes where the restart was.
ToggleSchedule ==
  /\ Len(toggles) < MaxToggles
  /\ \E s \in ScheduleIds, enabled \in BOOLEAN, answer \in GetDbAnswers :
       /\ toggles' = Append(toggles, [scheduleId |-> s, enabled |-> enabled,
                                      written |-> answer = "handle", during |-> hpc])
       /\ skillSchedules' =
            IF answer = "handle" THEN [skillSchedules EXCEPT ![s].enabled = enabled]
            ELSE skillSchedules
  /\ UNCHANGED << hpc, heals, ctx, errorLogs, failurePatterns, diagnosis, fixResult,
                  healResult, db, calls >>
  /\ UNCHANGED << rvars, selected, cost, hashes, infra, social >>

RestartNext ==
  \/ RestartSkillBegins
  \/ RestartSkillEnables
  \/ ToggleSchedule

RestartSpec == Init /\ [][RestartNext]_vars

\* The latest toggleSchedule call that wrote schedule s, if there is one.
LatestToggle(s) ==
  LET written == { j \in 1..Len(toggles) : toggles[j].scheduleId = s /\ toggles[j].written }
  IN IF written = {} THEN 0 ELSE CHOOSE j \in written : \A k \in written : k <= j

\* C35: a toggleSchedule(S, false) issued while a restart of S is in its pause
\* is not lost: once both operations are over, schedule S is disabled.
C35_ToggleDuringPauseKept ==
  LET j == LatestToggle(ctx.scheduleId) IN
  ( /\ hpc = "restartDone" /\ j # 0
    /\ toggles[j].during = "restartPause" /\ ~toggles[j].enabled ) =>
    ~skillSchedules[ctx.scheduleId].enabled

\* ======================================================================
\* The healError endpoint (skillRoutes.ts)
\* ======================================================================
\* healError passes its input on to healFailedSkill; attemptNumber is checked
\* to be a number (z.number()) and nothing more.
AcceptedAttemptNumbers == {-1, 0, 1, 2}
EndpointContexts == [scheduleId : ScheduleIds, skillId : {1},
                     attemptNumber : AcceptedAttemptNumbers, errorMessage : Messages]

HealError == HealFailedSkillFor(EndpointContexts)

EndpointNext ==
  \/ HealError
  \/ LogError
  \/ AnalyzeFailurePattern
  \/ DiagnoseProblem
  \/ RouterIterate
  \/ ProviderNeverAnswers
  \/ CallOpenRouterSettles
  \/ RouterExhausted
  \/ DiagnoseSettles
  \/ AttemptFix
  \/ ScheduleRetry
  \/ EscalateToUser
  \/ HealSettled

EndpointSpec == Init /\ [][EndpointNext]_vars

\* C36: for every attemptNumber the healError endpoint accepts, zero and
\* negative values included, the delay scheduleRetry applies is at least one
\* minute and at most 120 minutes.
C36_DelayAtLeastAMinute ==
  (Returned /\ healResult.retryScheduled /\ db = "handle") =>
    /\ skillSchedules[ctx.scheduleId].nextRunAt >= 60
    /\ skillSchedules[ctx.scheduleId].nextRunAt <= 120 * 60

\* ======================================================================
\* Server monitoring (infrastructureMonitoring.ts)
\* ======================================================================

\* The Server values passed to registerServer, by url and checkInterval (in
\* minutes); name, type and expectedStatus play no part in what follows.
Urls == {"https://ordain.church", "https://thealttext.com", "https://curlcare.app"}
Intervals == {5, 10}
Servers == [url : Urls, checkInterval : Intervals]

\* The row registerServer inserts; id by auto-increment.
NewServerRow(table, server) ==
  [id |-> Len(table) + 1,
   healthCheckUrl |-> server.url,
   ipAddress |-> "0.0.0.0",
   status |-> "unknown",
   lastCheckAt |-> << >>,
   metadata |-> [checkInterval |-> server.checkInterval]]

\* insert into monitored_servers: ipAddress carries a unique key, and the
\* store refuses a row whose ipAddress another row has.
InsertServer(table, row) ==
  IF \E j \in 1..Len(table) : table[j].ipAddress = row.ipAddress
  THEN [ok |-> FALSE, table |-> table]
  ELSE [ok |-> TRUE, table |-> Append(table, row)]

RowsWithUrl(table, url) == { j \in 1..Len(table) : table[j].healthCheckUrl = url }
FirstOf(indexes) == CHOOSE j \in indexes : \A k \in indexes : j <= k

\* registerServer(server): what it returns, or that it threw.
RegisterServer ==
  /\ Len(registrations) < MaxRegistrations
  /\ \E server \in Servers, answer \in GetDbAnswers :
       LET existing == RowsWithUrl(monitoredServers, server.url)
           ins == InsertServer(monitoredServers, NewServerRow(monitoredServers, server))
           call == [server |-> server, db |-> answer, threw |-> "no", id |-> 0]
       IN
       IF answer = "null"
       THEN /\ registrations' =
                 Append(registrations, [call EXCEPT !.threw = "Database unavailable"])
            /\ UNCHANGED monitoredServers
       ELSE IF existing # {}
       THEN /\ registrations' =
                 Append(registrations,
                        [call EXCEPT !.id = monitoredServers[FirstOf(existing)].id])
            /\ UNCHANGED monitoredServers
       ELSE IF ~ins.ok
       THEN /\ registrations' = Append(registrations, [call EXCEPT !.threw = "duplicate_key"])
            /\ UNCHANGED monitoredServers
       ELSE /\ monitoredServers' = ins.table
            /\ registrations' =
                 Append(registrations,
                        [call EXCEPT !.id =
                           ins.table[FirstOf(RowsWithUrl(ins.table, server.url))].id])
  /\ UNCHANGED << serverHealthChecks, now >>
  /\ UNCHANGED << rvars, selected, hvars, cost, hashes, toggles, social >>

RegisterNext == RegisterServer

RegisterSpec == Init /\ [][RegisterNext]_vars

RegisteredUrls == { registrations[j].server.url : j \in 1..Len(registrations) }
StoreInReachThroughout == \A j \in 1..Len(registrations) : registrations[j].db = "handle"

\* C37: starting from an empty table, registerServer succeeds for each of N
\* servers with pairwise distinct URLs and leaves N records with N distinct
\* ids; called again with a registered URL it returns the existing id and
\* adds no record.
C37_EveryServerRegistered ==
  StoreInReachThroughout =>
    /\ \A j \in 1..Len(registrations) :
         /\ registrations[j].threw = "no"
         /\ \E k \in RowsWithUrl(monitoredServers, registrations[j].server.url) :
              monitoredServers[k].id = registrations[j].id
    /\ Len(monitoredServers) = Cardinality(RegisteredUrls)
    /\ \A j, k \in 1..Len(monitoredServers) :
         monitoredServers[j].id = monitoredServers[k].id => j = k
    /\ \A j, k \in 1..Len(registrations) :
         registrations[j].server.url = registrations[k].server.url =>
           registrations[j].id = registrations[k].id

\* What holds as the code is: the first registration and every repetition of
\* its URL.
C37_FirstServerRegistered ==
  StoreInReachThroughout =>
    /\ Len(monitoredServers) <= 1
    /\ \A j \in 1..Len(registrations) :
         registrations[j].server.url = registrations[1].server.url =>
           registrations[j].threw = "no" /\ registrations[j].id = 1

\* ----------------------------------------------------------------------
\* The continuous-monitoring loop and performHealthCheck

\* (metadata.checkInterval || 5), in minutes.
IntervalOf(metadata) ==
  IF "checkInterval" \in DOMAIN metadata /\ metadata.checkInterval # 0
  THEN metadata.checkInterval ELSE 5

\* now - lastCheck >= intervalMs; lastCheckAt is << >> for null, which the code
\* reads as time 0, long before the loop was started.
Due(row, minute) ==
  \/ row.lastCheckAt = << >>
  \/ minute - row.lastCheckAt[1] >= IntervalOf(row.metadata)

\* What one performHealthCheck comes to: both writes done, no store handle at
\* its entry (it throws, the loop logs it), or the check saved and no handle
\* left for updateServerStatus. The status is what the fetch gave.
CheckOutcomes == [writes : {"both", "none", "check_only"},
                  status : {"healthy", "degraded", "down"}]

\* updateServerStatus: status, lastCheckAt and a new metadata value (the
\* uptime percentage is left out of the model).
UpdatedServer(row, status, minute) ==
  [row EXCEPT !.status = status, !.lastCheckAt = << minute >>,
              !.metadata = [lastResponseTime |-> 0]]

RECURSIVE SavedChecks(_, _, _, _)
SavedChecks(table, outcome, minute, j) ==
  IF j > Len(table) THEN << >>
  ELSE (IF Due(table[j], minute) /\ outcome[j].writes # "none"
        THEN << [serverId |-> table[j].id, status |-> outcome[j].status,
                 checkedAt |-> minute] >>
        ELSE << >>) \o SavedChecks(table, outcome, minute, j + 1)

\* One firing of the setInterval callback, a minute after the last one, and
\* the health checks it starts.
MonitorTick ==
  /\ now < MaxMinutes
  /\ Len(serverHealthChecks) < MaxChecks
  /\ now' = now + 1
  /\ \E answer \in GetDbAnswers :
       IF answer = "null"
       THEN UNCHANGED << monitoredServers, serverHealthChecks >>
       ELSE \E outcome \in [1..Len(monitoredServers) -> CheckOutcomes] :
              /\ monitoredServers' =
                   [j \in 1..Len(monitoredServers) |->
                      IF Due(monitoredServers[j], now') /\ outcome[j].writes = "both"
                      THEN UpdatedServer(monitoredServers[j], outcome[j].status, now')
                      ELSE monitoredServers[j]]
              /\ serverHealthChecks' =
                   serverHealthChecks \o SavedChecks(monitoredServers, outcome, now', 1)
  /\ UNCHANGED registrations
  /\ UNCHANGED << rvars, selected, hvars, cost, hashes, toggles, social >>

MonitorNext ==
  \/ RegisterServer
  \/ MonitorTick

MonitorSpec == Init /\ [][MonitorNext]_vars

\* The interval a server was registered with: that of the call that inserted
\* its row.
RegisteredInterval(row) ==
  LET made == { j \in 1..Len(registrations) :
                  /\ registrations[j].server.url = row.healthCheckUrl
                  /\ registrations[j].threw = "no" }
  IN registrations[FirstOf(made)].server.checkInterval

ChecksOf(id) == { j \in 1..Len(serverHealthChecks) : serverHealthChecks[j].serverId = id }

\* C38: a server's configured checkInterval is unchanged by performHealthCheck:
\* after any number of health checks the row still carries the interval I it
\* was registered with, and two checks of the server by the loop are at least
\* I minutes apart.
C38_CheckIntervalKept ==
  \A r \in 1..Len(monitoredServers) :
    LET row == monitoredServers[r]
        I == RegisteredInterval(row)
    IN /\ "checkInterval" \in DOMAIN row.metadata
       /\ row.metadata.checkInterval = I
       /\ \A j, k \in ChecksOf(row.id) :
            j < k => serverHealthChecks[k].checkedAt - serverHealthChecks[j].checkedAt >= I

\* The interval the loop goes by is the one the server was registered with.
C38_LoopUsesRegisteredInterval ==
  \A r \in 1..Len(monitoredServers) :
    IntervalOf(monitoredServers[r].metadata) = RegisteredInterval(monitoredServers[r])

\* ----------------------------------------------------------------------
\* scheduleSocialPost and createABTest (client/src/pages/Home.tsx)

\* db.insert(socialPosts): the id is the autoincrement key, createdAt the
\* store's clock at second resolution (timestamp, defaultNow).
InsertedPost(table, second) == [id |-> Len(table) + 1, createdAt |-> second]

\* select().orderBy(desc(createdAt)).limit(1): the ids the query can answer
\* with. Rows with the same createdAt come in no defined order.
LatestPostIds(table) ==
  { table[j].id : j \in { k \in 1..Len(table) :
                            \A m \in 1..Len(table) : table[m].createdAt <= table[k].createdAt } }

\* scheduleSocialPost up to the end of its insert.
ScheduleSocialPost(c) ==
  /\ posters[c].pc = "idle"
  /\ \E answer \in GetDbAnswers :
       IF answer = "null"
       THEN /\ posters' = [posters EXCEPT ![c] =
                             [IdlePoster EXCEPT !.kind = "schedule", !.pc = "done",
                                                !.threw = TRUE]]
            /\ UNCHANGED socialPosts
       ELSE /\ socialPosts' = Append(socialPosts, InsertedPost(socialPosts, seconds))
            /\ posters' = [posters EXCEPT ![c] =
                             [IdlePoster EXCEPT !.kind = "schedule", !.pc = "select",
                                                !.left = 1,
                                                !.inserted = {Len(socialPosts) + 1}]]
  /\ UNCHANGED seconds
  /\ UNCHANGED << rvars, selected, hvars, cost, hashes, toggles, infra >>

\* createABTest up to the start of its loop over the variants.
CreateABTest(c) ==
  /\ posters[c].pc = "idle"
  /\ \E answer \in GetDbAnswers, variants \in 0..MaxVariants :
       posters' = [posters EXCEPT ![c] =
                     IF answer = "null"
                     THEN [IdlePoster EXCEPT !.kind = "abtest", !.pc = "done", !.threw = TRUE]
                     ELSE [IdlePoster EXCEPT !.kind = "abtest",
                                             !.pc = IF variants = 0 THEN "done" ELSE "insert",
                                             !.left = variants]]
  /\ UNCHANGED << socialPosts, seconds >>
  /\ UNCHANGED << rvars, selected, hvars, cost, hashes, toggles, infra >>

\* The insert of one variant in createABTest's loop.
InsertVariant(c) ==
  /\ posters[c].pc = "insert"
  /\ socialPosts' = Append(socialPosts, InsertedPost(socialPosts, seconds))
  /\ posters' = [posters EXCEPT ![c].pc = "select",
                                ![c].inserted = @ \cup {Len(socialPosts) + 1}]
  /\ UNCHANGED seconds
  /\ UNCHANGED << rvars, selected, hvars, cost, hashes, toggles, infra >>

\* "Fetch the newly inserted post" in either function, and what follows it:
\* scheduleSocialPost returns the id, createABTest pushes it and goes on.
SelectNewPost(c) ==
  /\ posters[c].pc = "select"
  /\ \E id \in LatestPostIds(socialPosts) :
       posters' = [posters EXCEPT ![c].returned = Append(@, id),
                                  ![c].left = @ - 1,
                                  ![c].pc = IF posters[c].left = 1 THEN "done" ELSE "insert"]
  /\ UNCHANGED << socialPosts, seconds >>
  /\ UNCHANGED << rvars, selected, hvars, cost, hashes, toggles, infra >>

\* A second passes on the store's clock.
SecondPasses ==
  /\ seconds < MaxSeconds
  /\ seconds' = seconds + 1
  /\ UNCHANGED << socialPosts, posters >>
  /\ UNCHANGED << rvars, selected, hvars, cost, hashes, toggles, infra >>

PostNext ==
  \/ \E c \in Posters : ScheduleSocialPost(c)
  \/ \E c \in Posters : CreateABTest(c)
  \/ \E c \in Posters : InsertVariant(c)
  \/ \E c \in Posters : SelectNewPost(c)
  \/ SecondPasses

PostSpec == Init /\ [][PostNext]_vars

ScheduledAndReturned(c) ==
  posters[c].kind = "schedule" /\ posters[c].pc = "done" /\ ~posters[c].threw

\* C39: scheduleSocialPost returns the id of the post that this call
\* inserted, also when other scheduleSocialPost or createABTest calls run at
\* the same time: no call returns the id of a post another call inserted.
C39_ReturnsOwnPost ==
  \A c \in Posters :
    ScheduledAndReturned(c) => posters[c].returned[1] \in posters[c].inserted

\* The same for a call that runs alone on a table whose rows were all
\* inserted in different seconds.
C39_AloneReturnsOwnPost ==
  \A c \in Posters :
    ( /\ ScheduledAndReturned(c)
      /\ \A d \in Posters \ {c} : posters[d].kind = "none"
      /\ \A j, k \in 1..Len(socialPosts) :
           j # k => socialPosts[j].createdAt # socialPosts[k].createdAt ) =>
      posters[c].returned[1] \in posters[c].inserted

\* A call that follows a finished one, a second or more later, returns its own.
C39_LaterSecondReturnsOwnPost ==
  \A c \in Posters :
    ( /\ ScheduledAndReturned(c)
      /\ \A j \in 1..Len(socialPosts) :
           socialPosts[j].id \notin posters[c].inserted =>
             \A k \in 1..Len(socialPosts) :
               socialPosts[k].id \in posters[c].inserted =>
                 socialPosts[j].createdAt < socialPosts[k].createdAt ) =>
      posters[c].returned[1] \in posters[c].inserted

====
